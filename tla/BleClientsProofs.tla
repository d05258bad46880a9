-------------------------- MODULE BleClientsProofs --------------------------
(***************************************************************************)
(* Theorems about the BLE handler, for any devices, characteristics and    *)
(* number of subscriptions.  Calls that neither subscribe nor cancel leave *)
(* everything but the history of the dials alone (Quiet).  The invariant   *)
(* ties conns, the promises and what the clients have recorded together:   *)
(* who was promised something has its client in conns and the other way    *)
(* round, and a mode that a client has recorded has a known subscriber.    *)
(***************************************************************************)
EXTENDS BleClients, TLAPS

Methods == {"none", "read", "write", "discover", "subscribe"}

Quiet ==
    /\ UNCHANGED <<link, kept, flags, handler, ccc, subs, promised, doubtful, halfway>>
    /\ life' \in {"up", "dead"}
    /\ dialed' \in [Devices -> Methods]
    /\ \A d \in link : dialed'[d] = dialed[d]

(* Every step is quiet, subscribes, cancels or loses a device.             *)
LEMMA StepCases ==
    ASSUME BleTypeOK, [BleNext]_bleVars
    PROVE  \/ Quiet
           \/ \E d \in Devices :
                 \/ SubscribeLost(d) \/ Cancel(d) \/ CancelFails(d) \/ Drop(d)
                 \/ \E c \in Chars, m \in Modes, ok \in BOOLEAN : Subscribe(d, c, m, ok)
<1>1. CASE UNCHANGED bleVars
  BY <1>1 DEF bleVars, client, promises, Quiet, BleTypeOK, Methods
<1>2. CASE Scan
  BY <1>2 DEF Scan, client, promises, Quiet, BleTypeOK, Methods
<1>3. ASSUME NEW d \in Devices, NEW c \in Chars, ReadChar(d, c) \/ WriteChar(d, c)
      PROVE  Quiet
  <2>1. UNCHANGED <<link, kept, flags, handler, ccc, subs, promised, doubtful, halfway, life>>
    BY <1>3 DEF ReadChar, WriteChar, Visit, HangUp, client, promises
  <2>2. PICK method \in {"read", "write"} :
          dialed' = IF Fresh(d) /\ d \notin link
                    THEN [dialed EXCEPT ![d] = method] ELSE dialed
    BY <1>3 DEF ReadChar, WriteChar, Visit
  <2> QED BY <2>1, <2>2 DEF Quiet, BleTypeOK, Methods
<1>4. ASSUME NEW d \in Devices, Discover(d)
      PROVE  Quiet
  BY <1>4 DEF Discover, client, promises, Quiet, BleTypeOK, Methods
<1> QED BY <1>1, <1>2, <1>3, <1>4 DEF BleNext, Call

-----------------------------------------------------------------------------
(* What a subscription records, writes and keeps, place by place.          *)

Recorded(d, x, m) ==
    /\ flags'[d][x] = flags[d][x] \cup {m}
    /\ m \notin flags[d][x] => handler'[d][x][m] = NewId
    /\ \A n \in Modes : n # m \/ m \in flags[d][x] =>
          handler'[d][x][n] = handler[d][x][n]
    /\ \A e \in Devices, y \in Chars : e # d \/ y # x =>
          flags'[e][y] = flags[e][y] /\ handler'[e][y] = handler[e][y]

Written(d, x, m, ok) ==
    /\ ccc'[d][x] \in {ccc[d][x], flags[d][x] \cup {m}}
    /\ ok /\ m \notin flags[d][x] => ccc'[d][x] = flags[d][x] \cup {m}
    /\ \A e \in Devices, y \in Chars : e # d \/ y # x => ccc'[e][y] = ccc[e][y]

LEMMA SubscribeFacts ==
    ASSUME BleTypeOK,
           NEW d \in Devices, NEW c \in Chars, NEW m \in Modes, NEW ok \in BOOLEAN,
           Subscribe(d, c, m, ok)
    PROVE  /\ Chosen(d, c) \in Chars
           /\ flags' \in [Devices -> [Chars -> SUBSET Modes]]
           /\ handler' \in [Devices -> [Chars -> [Modes -> 0 .. MaxSubs]]]
           /\ ccc' \in [Devices -> [Chars -> SUBSET Modes]]
           /\ Recorded(d, Chosen(d, c), m)
           /\ Written(d, Chosen(d, c), m, ok)
<1> DEFINE x == Chosen(d, c)
<1>1. x \in Chars
  BY DEF Chosen, Fresh, BleTypeOK
<1>2. NewId \in 0 .. MaxSubs
  BY BleBounds DEF Subscribe, NewId, BleTypeOK
<1>3. /\ flags \in [Devices -> [Chars -> SUBSET Modes]]
      /\ handler \in [Devices -> [Chars -> [Modes -> 0 .. MaxSubs]]]
      /\ ccc \in [Devices -> [Chars -> SUBSET Modes]]
  BY DEF BleTypeOK
<1>4. Record(d, x, m) /\ \E done \in BOOLEAN : (ok => done) /\ Write(d, x, m, done)
  BY DEF Subscribe
<1> HIDE DEF x
<1>5. /\ flags' \in [Devices -> [Chars -> SUBSET Modes]]
      /\ handler' \in [Devices -> [Chars -> [Modes -> 0 .. MaxSubs]]]
      /\ Recorded(d, x, m)
  <2>1. CASE m \in flags[d][x]
    <3>1. flags' = flags /\ handler' = handler
      BY <1>4, <2>1 DEF Record
    <3>2. flags[d][x] \cup {m} = flags[d][x]
      BY <2>1
    <3> QED BY <1>3, <2>1, <3>1, <3>2 DEF Recorded
  <2>2. CASE m \notin flags[d][x]
    <3>1. /\ flags' = [flags EXCEPT ![d] = [flags[d] EXCEPT ![x] = flags[d][x] \cup {m}]]
          /\ handler' = [handler EXCEPT ![d] = [handler[d] EXCEPT ![x] =
                            [handler[d][x] EXCEPT ![m] = NewId]]]
      BY <1>1, <1>3, <1>4, <2>2 DEF Record
    <3>2. [flags[d] EXCEPT ![x] = flags[d][x] \cup {m}] \in [Chars -> SUBSET Modes]
      BY <1>1, <1>3
    <3>3. [handler[d][x] EXCEPT ![m] = NewId] \in [Modes -> 0 .. MaxSubs]
      BY <1>1, <1>2, <1>3
    <3>4. [handler[d] EXCEPT ![x] = [handler[d][x] EXCEPT ![m] = NewId]]
              \in [Chars -> [Modes -> 0 .. MaxSubs]]
      BY <1>1, <1>3, <3>3
    <3>5. flags'[d][x] = flags[d][x] \cup {m} /\ handler'[d][x][m] = NewId
      BY <1>1, <1>3, <3>1
    <3>6. /\ \A n \in Modes : n # m => handler'[d][x][n] = handler[d][x][n]
          /\ \A e \in Devices, y \in Chars : e # d \/ y # x =>
                flags'[e][y] = flags[e][y] /\ handler'[e][y] = handler[e][y]
      BY <1>1, <1>3, <3>1
    <3>7. flags' \in [Devices -> [Chars -> SUBSET Modes]]
      BY <1>3, <3>1, <3>2
    <3>8. handler' \in [Devices -> [Chars -> [Modes -> 0 .. MaxSubs]]]
      BY <1>3, <3>1, <3>4
    <3> QED BY <2>2, <3>5, <3>6, <3>7, <3>8 DEF Recorded
  <2> QED BY <2>1, <2>2
<1>6. ccc' \in [Devices -> [Chars -> SUBSET Modes]] /\ Written(d, x, m, ok)
  <2>1. PICK done \in BOOLEAN : (ok => done) /\ Write(d, x, m, done)
    BY <1>4
  <2>2. CASE done /\ m \notin flags[d][x]
    <3>1. ccc' = [ccc EXCEPT ![d] = [ccc[d] EXCEPT ![x] = flags[d][x] \cup {m}]]
      BY <1>1, <1>3, <2>1, <2>2 DEF Write
    <3>2. [ccc[d] EXCEPT ![x] = flags[d][x] \cup {m}] \in [Chars -> SUBSET Modes]
      BY <1>1, <1>3
    <3>3. ccc' \in [Devices -> [Chars -> SUBSET Modes]]
      BY <1>3, <3>1, <3>2
    <3>4. /\ ccc'[d][x] = flags[d][x] \cup {m}
          /\ \A e \in Devices, y \in Chars : e # d \/ y # x => ccc'[e][y] = ccc[e][y]
      BY <1>1, <1>3, <3>1
    <3> QED BY <1>1, <3>3, <3>4 DEF Written
  <2>3. CASE ~(done /\ m \notin flags[d][x])
    <3>1. ccc' = ccc
      BY <2>1, <2>3 DEF Write
    <3> QED BY <1>3, <2>1, <2>3, <3>1 DEF Written
  <2> QED BY <2>2, <2>3
<1> QED BY <1>1, <1>5, <1>6 DEF x

(* What Clean leaves of a device and of the others.                        *)
LEMMA CleanFacts ==
    ASSUME BleTypeOK, NEW d \in Devices, Clean(d)
    PROVE  /\ flags' \in [Devices -> [Chars -> SUBSET Modes]]
           /\ handler' \in [Devices -> [Chars -> [Modes -> 0 .. MaxSubs]]]
           /\ ccc' \in [Devices -> [Chars -> SUBSET Modes]]
           /\ \A y \in Chars : flags'[d][y] = {} /\ ccc'[d][y] = {}
           /\ \A e \in Devices : e # d => /\ flags'[e] = flags[e]
                                          /\ handler'[e] = handler[e]
                                          /\ ccc'[e] = ccc[e]
<1>1. NoModes \in [Chars -> SUBSET Modes] /\ \A y \in Chars : NoModes[y] = {}
  BY DEF NoModes
<1>2. NoHandler \in [Chars -> [Modes -> 0 .. MaxSubs]]
  BY BleBounds DEF NoHandler
<1> QED BY <1>1, <1>2 DEF Clean, BleTypeOK

-----------------------------------------------------------------------------
(* The types are an invariant of their own.                                *)

LEMMA TypeStep ==
    ASSUME BleTypeOK, [BleNext]_bleVars
    PROVE  BleTypeOK'
<1>1. CASE Quiet
  BY <1>1 DEF Quiet, Methods, BleTypeOK
<1>2. ASSUME NEW d \in Devices, SubscribeLost(d)
      PROVE  BleTypeOK'
  BY <1>2, BleBounds DEF SubscribeLost, client, NewId, BleTypeOK
<1>3. ASSUME NEW d \in Devices, NEW c \in Chars, NEW m \in Modes, NEW ok \in BOOLEAN,
             Subscribe(d, c, m, ok)
      PROVE  BleTypeOK'
  <2> DEFINE x == Chosen(d, c)
  <2>1. NewId \in Ids /\ NewId # 0 /\ subs' = NewId /\ subs' \in 0 .. MaxSubs
    BY <1>3, BleBounds DEF Subscribe, NewId, Ids, BleTypeOK
  <2>2. /\ x \in Chars
        /\ flags' \in [Devices -> [Chars -> SUBSET Modes]]
        /\ handler' \in [Devices -> [Chars -> [Modes -> 0 .. MaxSubs]]]
        /\ ccc' \in [Devices -> [Chars -> SUBSET Modes]]
        /\ Recorded(d, x, m) /\ Written(d, x, m, ok)
    BY <1>3, SubscribeFacts
  <2> HIDE DEF x
  <2>3. ASSUME NEW e \in Devices, NEW y \in Chars
        PROVE  /\ e \notin link' => ccc'[e][y] = {}
               /\ \A n \in flags'[e][y] : handler'[e][y][n] # 0
               /\ ccc'[e][y] \subseteq flags'[e][y]
    <3>1. /\ e \notin link => ccc[e][y] = {}
          /\ \A n \in flags[e][y] : handler[e][y][n] # 0
          /\ ccc[e][y] \subseteq flags[e][y] /\ flags[e][y] \subseteq Modes
      BY DEF BleTypeOK
    <3>2. link' = link \cup {d}
      BY <1>3 DEF Subscribe
    <3>3. CASE e # d \/ y # x
      <4>1. /\ flags'[e][y] = flags[e][y] /\ handler'[e][y] = handler[e][y]
            /\ ccc'[e][y] = ccc[e][y]
        BY <2>2, <3>3 DEF Recorded, Written
      <4> QED BY <3>1, <3>2, <4>1
    <3>4. CASE e = d /\ y = x
      <4>1. \A n \in flags'[d][x] : handler'[d][x][n] # 0
        <5> SUFFICES ASSUME NEW n \in flags'[d][x] PROVE handler'[d][x][n] # 0
          OBVIOUS
        <5>1. n \in Modes /\ (n \in flags[d][x] \/ n = m)
          BY <2>2, <3>1, <3>4 DEF Recorded
        <5>2. CASE n # m \/ m \in flags[d][x]
          <6>1. n \in flags[d][x] /\ handler'[d][x][n] = handler[d][x][n]
            BY <2>2, <5>1, <5>2 DEF Recorded
          <6> QED BY <3>1, <3>4, <6>1
        <5>3. CASE n = m /\ m \notin flags[d][x]
          BY <2>1, <2>2, <5>3 DEF Recorded
        <5> QED BY <5>2, <5>3
      <4>2. ccc'[d][x] \subseteq flags'[d][x]
        BY <2>2, <3>1, <3>4 DEF Recorded, Written
      <4> QED BY <3>2, <3>4, <4>1, <4>2
    <3> QED BY <3>3, <3>4
  <2>4. kept' \in [Devices -> Chars \cup {Nothing}]
    BY <1>3 DEF Subscribe, Keep, BleTypeOK
  <2>5. promised' \subseteq Promises /\ doubtful' \subseteq Ids
    BY <1>3, <2>1 DEF Subscribe, Promises, BleTypeOK
  <2>6. /\ link' \subseteq Devices /\ halfway' \subseteq Devices /\ life' \in {"up", "dead"}
        /\ dialed' \in [Devices -> {"none", "read", "write", "discover", "subscribe"}]
    BY <1>3 DEF Subscribe, BleTypeOK
  <2> QED BY <2>1, <2>2, <2>3, <2>4, <2>5, <2>6 DEF BleTypeOK
<1>4. ASSUME NEW d \in Devices, Cancel(d)
      PROVE  BleTypeOK'
  <2>1. Clean(d) /\ link' = link \ {d}
    BY <1>4 DEF Cancel
  <2>2. /\ flags' \in [Devices -> [Chars -> SUBSET Modes]]
        /\ handler' \in [Devices -> [Chars -> [Modes -> 0 .. MaxSubs]]]
        /\ ccc' \in [Devices -> [Chars -> SUBSET Modes]]
        /\ \A y \in Chars : flags'[d][y] = {} /\ ccc'[d][y] = {}
        /\ \A e \in Devices : e # d => /\ flags'[e] = flags[e]
                                       /\ handler'[e] = handler[e]
                                       /\ ccc'[e] = ccc[e]
    BY <2>1, CleanFacts
  <2>3. ASSUME NEW e \in Devices, NEW y \in Chars
        PROVE  /\ e \notin link' => ccc'[e][y] = {}
               /\ \A n \in flags'[e][y] : handler'[e][y][n] # 0
               /\ ccc'[e][y] \subseteq flags'[e][y]
    <3>1. CASE e = d
      BY <2>2, <3>1
    <3>2. CASE e # d
      BY <2>1, <2>2, <3>2 DEF BleTypeOK
    <3> QED BY <3>1, <3>2
  <2> QED BY <1>4, <2>2, <2>3 DEF Cancel, BleTypeOK
<1>5. ASSUME NEW d \in Devices, CancelFails(d)
      PROVE  BleTypeOK'
  <2>1. NoModes \in [Chars -> SUBSET Modes] /\ \A y \in Chars : NoModes[y] = {}
    BY DEF NoModes
  <2>2. /\ ccc' \in [Devices -> [Chars -> SUBSET Modes]]
        /\ \A e \in Devices, y \in Chars : ccc'[e][y] \in {{}, ccc[e][y]}
    <3>1. CASE ccc' = ccc
      BY <3>1 DEF BleTypeOK
    <3>2. CASE ccc' = [ccc EXCEPT ![d] = NoModes]
      BY <2>1, <3>2 DEF BleTypeOK
    <3> QED BY <1>5, <3>1, <3>2 DEF CancelFails
  <2>3. UNCHANGED <<link, kept, flags, handler, subs, promised, doubtful, life, dialed>>
    BY <1>5 DEF CancelFails
  <2>4. halfway' \subseteq Devices
    BY <1>5 DEF CancelFails, BleTypeOK
  <2>5. ASSUME NEW e \in Devices, NEW y \in Chars
        PROVE  /\ e \notin link' => ccc'[e][y] = {}
               /\ \A n \in flags'[e][y] : handler'[e][y][n] # 0
               /\ ccc'[e][y] \subseteq flags'[e][y]
    <3>1. /\ e \notin link => ccc[e][y] = {}
          /\ \A n \in flags[e][y] : handler[e][y][n] # 0
          /\ ccc[e][y] \subseteq flags[e][y]
      BY DEF BleTypeOK
    <3>2. CASE ccc'[e][y] = ccc[e][y]
      BY <2>3, <3>1, <3>2
    <3>3. CASE ccc'[e][y] = {}
      BY <2>3, <3>1, <3>3
    <3> QED BY <2>2, <3>2, <3>3
  <2> QED BY <2>2, <2>3, <2>4, <2>5 DEF BleTypeOK
<1>6. ASSUME NEW d \in Devices, Drop(d)
      PROVE  BleTypeOK'
  <2>0. link' = link \ {d} /\ UNCHANGED <<kept, subs, promised, doubtful, halfway, life, dialed>>
    BY <1>6 DEF Drop, promises
  <2>2. CASE Fresh(d)
    <3>2. /\ flags' \in [Devices -> [Chars -> SUBSET Modes]]
          /\ handler' \in [Devices -> [Chars -> [Modes -> 0 .. MaxSubs]]]
          /\ ccc' \in [Devices -> [Chars -> SUBSET Modes]]
          /\ \A y \in Chars : flags'[d][y] = {} /\ ccc'[d][y] = {}
          /\ \A e \in Devices : e # d => /\ flags'[e] = flags[e]
                                         /\ handler'[e] = handler[e]
                                         /\ ccc'[e] = ccc[e]
      BY <1>6, <2>2, CleanFacts DEF Drop
    <3>3. ASSUME NEW e \in Devices, NEW y \in Chars
          PROVE  /\ e \notin link' => ccc'[e][y] = {}
                 /\ \A n \in flags'[e][y] : handler'[e][y][n] # 0
                 /\ ccc'[e][y] \subseteq flags'[e][y]
      <4>1. CASE e = d
        BY <3>2, <4>1
      <4>2. CASE e # d
        BY <2>0, <3>2, <4>2 DEF BleTypeOK
      <4> QED BY <4>1, <4>2
    <3> QED BY <2>0, <3>2, <3>3 DEF BleTypeOK
  <2>3. CASE ~Fresh(d)
    <3>0. NoModes \in [Chars -> SUBSET Modes] /\ \A y \in Chars : NoModes[y] = {}
      BY DEF NoModes
    <3>1. ccc' = [ccc EXCEPT ![d] = NoModes] /\ UNCHANGED <<flags, handler>>
      BY <1>6, <2>3 DEF Drop
    <3>2. /\ ccc' \in [Devices -> [Chars -> SUBSET Modes]]
          /\ \A y \in Chars : ccc'[d][y] = {}
          /\ \A e \in Devices : e # d => ccc'[e] = ccc[e]
      BY <3>0, <3>1 DEF BleTypeOK
    <3>3. ASSUME NEW e \in Devices, NEW y \in Chars
          PROVE  (e \notin link' => ccc'[e][y] = {}) /\ ccc'[e][y] \subseteq flags[e][y]
      <4>1. CASE e = d
        BY <3>2, <4>1
      <4>2. CASE e # d
        BY <2>0, <3>2, <4>2 DEF BleTypeOK
      <4> QED BY <4>1, <4>2
    <3> QED BY <2>0, <3>1, <3>2, <3>3 DEF BleTypeOK
  <2> QED BY <2>2, <2>3
<1> QED BY <1>1, <1>2, <1>3, <1>4, <1>5, <1>6, StepCases

(* Types, for any devices and number of subscriptions: no device that is   *)
(* not connected has anything turned on, and what is on has a handler.     *)
THEOREM BleTypeCorrect == BleSpec => []BleTypeOK
<1>1. BleInit => BleTypeOK
  BY BleBounds DEF BleInit, BleTypeOK, NoHandler, NoModes, Modes
<1> QED BY <1>1, TypeStep, PTL DEF BleSpec

-----------------------------------------------------------------------------
(* What stays connected                                                    *)

LEMMA LeakStep ==
    ASSUME BleTypeOK, OnlySubscribeLeaks, [BleNext]_bleVars
    PROVE  OnlySubscribeLeaks'
<1> USE BleBounds DEF BleTypeOK, OnlySubscribeLeaks, Fresh
<1>1. CASE Quiet
  BY <1>1 DEF Quiet
<1>2. ASSUME NEW d \in Devices, SubscribeLost(d)
      PROVE  OnlySubscribeLeaks'
  BY <1>2 DEF SubscribeLost
<1>3. ASSUME NEW d \in Devices, NEW c \in Chars, NEW m \in Modes, NEW ok \in BOOLEAN,
             Subscribe(d, c, m, ok)
      PROVE  OnlySubscribeLeaks'
  BY <1>3 DEF Subscribe, Keep
<1>4. ASSUME NEW d \in Devices, Cancel(d) \/ CancelFails(d) \/ Drop(d)
      PROVE  OnlySubscribeLeaks'
  BY <1>4 DEF Cancel, CancelFails, Drop
<1> QED BY <1>1, <1>2, <1>3, <1>4, StepCases

(* A device that is connected without a client in conns was left so by a   *)
(* subscribe that failed, never by a read, a write or a discovery.         *)
THEOREM LeaksAreSubscribes == BleSpec => []OnlySubscribeLeaks
<1>1. BleInit => OnlySubscribeLeaks
  BY DEF BleInit, OnlySubscribeLeaks
<1> QED BY <1>1, LeakStep, BleTypeCorrect, PTL DEF BleSpec

-----------------------------------------------------------------------------
(* The promises                                                            *)

IdsUsed ==
    /\ \A p, q \in promised : p.id = q.id => p = q
    /\ \A p \in promised : p.id <= subs
    /\ \A i \in doubtful : i <= subs

(* The first promise of a device is for the characteristic of its client.  *)
Founds(p, d) ==
    /\ p.dev = d /\ p.ch = kept[d]
    /\ \A q \in promised : q.dev = d => p.id <= q.id

KeptIsPromised ==
    \A d \in Devices : ~Fresh(d) => \E p \in promised : Founds(p, d)

PromisedIsKept == \A p \in promised : ~Fresh(p.dev)

(* A client has recorded nothing but the first characteristic, and there   *)
(* is no client of a device that is neither kept nor connected.            *)
RecordedIsFirst ==
    \A d \in Devices, x \in Chars :
        IF Fresh(d) THEN d \notin link => flags[d][x] = {}
                    ELSE x # kept[d] => flags[d][x] = {}

Known(d, x, m) ==
    \/ handler[d][x][m] \in doubtful
    \/ \E p \in promised : p.dev = d /\ p.mode = m /\ p.id = handler[d][x][m]

RecordedIsKnown ==
    \A d \in Devices, x \in Chars : \A m \in flags[d][x] : Known(d, x, m)

PromiseInv ==
    /\ BleTypeOK /\ IdsUsed /\ KeptIsPromised /\ PromisedIsKept
    /\ RecordedIsFirst /\ RecordedIsKnown

LEMMA SubscribePromises ==
    ASSUME PromiseInv,
           NEW d \in Devices, NEW c \in Chars, NEW m \in Modes, NEW ok \in BOOLEAN,
           Subscribe(d, c, m, ok)
    PROVE  /\ IdsUsed' /\ KeptIsPromised' /\ PromisedIsKept'
           /\ RecordedIsFirst' /\ RecordedIsKnown'
<1> DEFINE new == [id |-> NewId, dev |-> d, ch |-> c, mode |-> m]
           x == Chosen(d, c)
<1>0. /\ x \in Chars
      /\ Recorded(d, x, m) /\ Written(d, x, m, ok)
  BY SubscribeFacts DEF PromiseInv
<1>a. x = IF Fresh(d) THEN c ELSE kept[d]
  BY DEF Chosen
<1> HIDE DEF x
<1>1. /\ subs' = subs + 1 /\ NewId = subs + 1 /\ subs \in Nat
      /\ promised \subseteq promised' /\ doubtful \subseteq doubtful'
      /\ ok => promised' = promised \cup {new} /\ doubtful' = doubtful
      /\ ~ok => promised' = promised /\ doubtful' = doubtful \cup {NewId}
  BY BleBounds DEF PromiseInv, BleTypeOK, Subscribe, NewId
<1>2. /\ promised \subseteq Promises /\ doubtful \subseteq Ids
      /\ Ids \subseteq Nat
  BY BleBounds DEF PromiseInv, BleTypeOK, Ids
<1>b. /\ \A p \in promised : p.id \in Nat /\ p.id <= subs
      /\ new.id = NewId /\ new.dev = d /\ new.ch = c /\ new.mode = m
  BY <1>2 DEF PromiseInv, IdsUsed, Promises
<1>c. /\ kept \in [Devices -> Chars \cup {Nothing}]
      /\ kept' \in [Devices -> Chars \cup {Nothing}]
      /\ \A e \in Devices : e # d \/ ~Fresh(d) => kept'[e] = kept[e]
      /\ Fresh(d) => /\ ok => kept'[d] = c
                     /\ ~ok => kept'[d] = Nothing
                     /\ d \notin link
      /\ d \in link' /\ link' = link \cup {d} /\ c # Nothing /\ d \in Devices
  BY BleBounds DEF Subscribe, Keep, Fresh, Reachable, PromiseInv, BleTypeOK
<1> HIDE DEF new
<1>3. IdsUsed'
  <2>2. \A i \in doubtful : i \in Nat /\ i <= subs
    BY <1>2 DEF PromiseInv, IdsUsed
  <2>3. /\ \A p \in promised' : p.id <= subs'
        /\ \A i \in doubtful' : i <= subs'
    BY <1>1, <1>b, <2>2
  <2>4. ASSUME NEW p \in promised', NEW q \in promised', p.id = q.id
        PROVE  p = q
    <3>1. CASE p \in promised /\ q \in promised
      BY <2>4, <3>1 DEF PromiseInv, IdsUsed
    <3>2. CASE p \notin promised \/ q \notin promised
      <4>1. /\ p \in promised \/ p = new
            /\ q \in promised \/ q = new
        BY <1>1
      <4> QED BY <1>1, <1>b, <2>4, <3>2, <4>1
    <3> QED BY <3>1, <3>2
  <2> QED BY <2>3, <2>4 DEF IdsUsed
<1>4. KeptIsPromised'
  <2> SUFFICES ASSUME NEW e \in Devices, kept'[e] # Nothing
               PROVE  \E p \in promised' : Founds(p, e)'
    BY DEF KeptIsPromised, Fresh
  <2>1. CASE kept[e] # Nothing
    <3>1. PICK p \in promised : Founds(p, e)
      BY <2>1 DEF PromiseInv, KeptIsPromised, Fresh
    <3>2. kept'[e] = kept[e]
      BY <1>c, <2>1 DEF Fresh
    <3>3. \A q \in promised' : q \in promised \/ (q = new /\ ok)
      BY <1>1
    <3>4. \A q \in promised' : q.dev = e => p.id <= q.id
      BY <1>1, <1>b, <3>1, <3>3 DEF Founds
    <3> QED BY <1>1, <3>1, <3>2, <3>4 DEF Founds
  <2>2. CASE kept[e] = Nothing
    <3>1. e = d /\ ok /\ kept'[e] = c
      BY <1>c, <2>2 DEF Fresh
    <3>2. \A q \in promised : q.dev # d
      BY <2>2, <3>1 DEF PromiseInv, PromisedIsKept, Fresh
    <3>3. new \in promised' /\ \A q \in promised' : q.dev = d => q = new
      BY <1>1, <3>1, <3>2
    <3>4. \A q \in promised' : q.dev = d => new.id <= q.id
      BY <1>1, <1>b, <3>3
    <3> QED BY <1>b, <3>1, <3>3, <3>4 DEF Founds
  <2> QED BY <2>1, <2>2
<1>5. PromisedIsKept'
  <2> SUFFICES ASSUME NEW p \in promised'
               PROVE  kept'[p.dev] # Nothing
    BY DEF PromisedIsKept, Fresh
  <2>1. CASE p \in promised
    <3>1. p.dev \in Devices /\ kept[p.dev] # Nothing
      BY <1>2, <2>1 DEF PromiseInv, PromisedIsKept, Fresh, Promises
    <3> QED BY <1>c, <3>1 DEF Fresh
  <2>2. CASE p \notin promised
    <3>1. ok /\ p.dev = d
      BY <1>1, <1>b, <2>2
    <3> QED BY <1>c, <3>1 DEF Fresh
  <2> QED BY <2>1, <2>2
<1>7. RecordedIsFirst'
  <2> SUFFICES ASSUME NEW e \in Devices, NEW y \in Chars
               PROVE  IF kept'[e] = Nothing THEN e \notin link' => flags'[e][y] = {}
                                            ELSE y # kept'[e] => flags'[e][y] = {}
    BY DEF RecordedIsFirst, Fresh
  <2>1. IF kept[e] = Nothing THEN e \notin link => flags[e][y] = {}
                             ELSE y # kept[e] => flags[e][y] = {}
    BY DEF PromiseInv, RecordedIsFirst, Fresh
  <2>2. CASE e # d
    <3>1. flags'[e][y] = flags[e][y] /\ kept'[e] = kept[e] /\ (e \in link' <=> e \in link)
      BY <1>0, <1>c, <2>2 DEF Recorded
    <3> QED BY <2>1, <3>1
  <2>3. CASE e = d
    <3>1. y # x => flags'[d][y] = flags[d][y]
      BY <1>0 DEF Recorded
    <3> QED BY <1>a, <1>c, <2>1, <2>3, <3>1 DEF Fresh
  <2> QED BY <2>2, <2>3
<1>6. RecordedIsKnown'
  <2> SUFFICES ASSUME NEW e \in Devices, NEW y \in Chars, NEW n \in flags'[e][y]
               PROVE  Known(e, y, n)'
    BY DEF RecordedIsKnown
  <2>0. flags[e][y] \subseteq Modes
    BY DEF PromiseInv, BleTypeOK
  <2>1. CASE n \in flags[e][y]
    <3>1. Known(e, y, n)
      BY <2>1 DEF PromiseInv, RecordedIsKnown
    <3>2. handler'[e][y][n] = handler[e][y][n]
      <4>1. CASE e # d \/ y # x
        BY <1>0, <4>1 DEF Recorded
      <4>2. CASE e = d /\ y = x
        <5>1. n # m \/ m \in flags[d][x]
          BY <2>1, <4>2
        <5> QED BY <1>0, <2>0, <2>1, <4>2, <5>1 DEF Recorded
      <4> QED BY <4>1, <4>2
    <3> QED BY <1>1, <3>1, <3>2 DEF Known
  <2>2. CASE n \notin flags[e][y]
    <3>1. e = d /\ y = x /\ n = m
      BY <1>0, <2>2 DEF Recorded
    <3>2. handler'[d][x][m] = NewId
      BY <1>0, <2>2, <3>1 DEF Recorded
    <3>3. ok => new \in promised' /\ new.dev = d /\ new.mode = m /\ new.id = NewId
      BY <1>1, <1>b
    <3> QED BY <1>1, <3>1, <3>2, <3>3 DEF Known
  <2> QED BY <2>1, <2>2
<1> QED BY <1>3, <1>4, <1>5, <1>6, <1>7

LEMMA PromiseStep ==
    ASSUME PromiseInv, [BleNext]_bleVars
    PROVE  PromiseInv'
<1> USE DEF PromiseInv
<1>1. BleTypeOK'
  BY TypeStep
<1>2. CASE Quiet
  BY <1>1, <1>2 DEF Quiet, IdsUsed, KeptIsPromised, Founds, PromisedIsKept,
                    RecordedIsFirst, RecordedIsKnown, Known, Fresh
<1>3. ASSUME NEW d \in Devices, SubscribeLost(d)
      PROVE  PromiseInv'
  <2>1. UNCHANGED <<kept, flags, handler, promised, doubtful>> /\ link' = link \cup {d}
    BY <1>3 DEF SubscribeLost, client
  <2>2. IdsUsed'
    <3>1. /\ subs' = subs + 1 /\ subs \in Nat
          /\ \A p \in promised : p.id \in Nat
          /\ \A i \in doubtful : i \in Nat
      BY <1>3, BleBounds DEF SubscribeLost, NewId, BleTypeOK, Promises, Ids
    <3> QED BY <2>1, <3>1 DEF IdsUsed
  <2>3. KeptIsPromised' /\ PromisedIsKept' /\ RecordedIsKnown'
    BY <2>1 DEF KeptIsPromised, Founds, PromisedIsKept, RecordedIsKnown, Known, Fresh
  <2>4. RecordedIsFirst'
    BY <2>1 DEF RecordedIsFirst, Fresh
  <2> QED BY <1>1, <2>2, <2>3, <2>4
<1>4. ASSUME NEW d \in Devices, NEW c \in Chars, NEW m \in Modes, NEW ok \in BOOLEAN,
             Subscribe(d, c, m, ok)
      PROVE  PromiseInv'
  BY <1>1, <1>4, SubscribePromises
<1>5. ASSUME NEW d \in Devices, Cancel(d)
      PROVE  PromiseInv'
  <2>1. /\ kept' = [kept EXCEPT ![d] = Nothing] /\ Clean(d)
        /\ promised' = {p \in promised : p.dev # d} /\ link' = link \ {d}
        /\ UNCHANGED <<subs, doubtful>>
    BY <1>5 DEF Cancel
  <2>a. /\ \A y \in Chars : flags'[d][y] = {}
        /\ \A e \in Devices : e # d => flags'[e] = flags[e] /\ handler'[e] = handler[e]
    BY <2>1, CleanFacts
  <2>b. /\ kept'[d] = Nothing
        /\ \A e \in Devices : e # d => kept'[e] = kept[e] /\ (e \in link' <=> e \in link)
    BY <2>1 DEF BleTypeOK
  <2>2. IdsUsed'
    BY <2>1 DEF IdsUsed
  <2>3. KeptIsPromised'
    <3> SUFFICES ASSUME NEW e \in Devices, kept'[e] # Nothing
                 PROVE  \E p \in promised' : Founds(p, e)'
      BY DEF KeptIsPromised, Fresh
    <3>1. e # d /\ kept'[e] = kept[e]
      BY <2>b
    <3>2. PICK p \in promised : Founds(p, e)
      BY <3>1 DEF KeptIsPromised, Fresh
    <3>3. p \in promised' /\ promised' \subseteq promised
      BY <2>1, <3>1, <3>2 DEF Founds
    <3> QED BY <3>1, <3>2, <3>3 DEF Founds
  <2>4. PromisedIsKept'
    BY <2>1, <2>b DEF PromisedIsKept, Fresh, BleTypeOK, Promises
  <2>6. RecordedIsFirst'
    <3> SUFFICES ASSUME NEW e \in Devices, NEW y \in Chars
                 PROVE  IF kept'[e] = Nothing THEN e \notin link' => flags'[e][y] = {}
                                              ELSE y # kept'[e] => flags'[e][y] = {}
      BY DEF RecordedIsFirst, Fresh
    <3>1. CASE e = d
      BY <2>a, <2>b, <3>1
    <3>2. CASE e # d
      BY <2>a, <2>b, <3>2 DEF RecordedIsFirst, Fresh
    <3> QED BY <3>1, <3>2
  <2>5. RecordedIsKnown'
    <3> SUFFICES ASSUME NEW e \in Devices, NEW y \in Chars, NEW n \in flags'[e][y]
                 PROVE  Known(e, y, n)'
      BY DEF RecordedIsKnown
    <3>1. e # d /\ n \in flags[e][y] /\ handler'[e] = handler[e]
      BY <2>a
    <3>2. Known(e, y, n)
      BY <3>1 DEF RecordedIsKnown
    <3> QED BY <2>1, <3>1, <3>2 DEF Known
  <2> QED BY <1>1, <2>2, <2>3, <2>4, <2>5, <2>6
<1>6. ASSUME NEW d \in Devices, CancelFails(d)
      PROVE  PromiseInv'
  <2>1. UNCHANGED <<link, kept, flags, handler, subs, promised, doubtful>>
    BY <1>6 DEF CancelFails
  <2> QED BY <1>1, <2>1 DEF IdsUsed, KeptIsPromised, Founds, PromisedIsKept,
                            RecordedIsFirst, RecordedIsKnown, Known, Fresh
<1>7. ASSUME NEW d \in Devices, Drop(d)
      PROVE  PromiseInv'
  <2>1. UNCHANGED <<kept, subs, promised, doubtful>> /\ link' = link \ {d}
    BY <1>7 DEF Drop, promises
  <2>a. \A e \in Devices, y \in Chars :
           \/ flags'[e][y] = flags[e][y] /\ handler'[e] = handler[e]
           \/ e = d /\ flags'[e][y] = {}
    <3>1. CASE Fresh(d)
      <4>1. Clean(d)
        BY <1>7, <3>1 DEF Drop
      <4> QED BY <4>1, CleanFacts
    <3>2. CASE ~Fresh(d)
      BY <1>7, <3>2 DEF Drop
    <3> QED BY <3>1, <3>2
  <2>b. Fresh(d) => \A y \in Chars : flags'[d][y] = {}
    <3>1. Fresh(d) => Clean(d)
      BY <1>7 DEF Drop
    <3> QED BY <3>1, CleanFacts
  <2>2. RecordedIsKnown'
    <3> SUFFICES ASSUME NEW e \in Devices, NEW y \in Chars, NEW n \in flags'[e][y]
                 PROVE  Known(e, y, n)'
      BY DEF RecordedIsKnown
    <3>1. n \in flags[e][y] /\ handler'[e] = handler[e]
      BY <2>a
    <3>2. Known(e, y, n)
      BY <3>1 DEF RecordedIsKnown
    <3> QED BY <2>1, <3>1, <3>2 DEF Known
  <2>3. RecordedIsFirst'
    <3> SUFFICES ASSUME NEW e \in Devices, NEW y \in Chars
                 PROVE  IF kept'[e] = Nothing THEN e \notin link' => flags'[e][y] = {}
                                              ELSE y # kept'[e] => flags'[e][y] = {}
      BY DEF RecordedIsFirst, Fresh
    <3>1. IF kept[e] = Nothing THEN e \notin link => flags[e][y] = {}
                               ELSE y # kept[e] => flags[e][y] = {}
      BY DEF RecordedIsFirst, Fresh
    <3> QED BY <2>1, <2>a, <2>b, <3>1 DEF Fresh
  <2>4. IdsUsed' /\ KeptIsPromised' /\ PromisedIsKept'
    BY <2>1 DEF IdsUsed, KeptIsPromised, Founds, PromisedIsKept, Fresh
  <2> QED BY <1>1, <2>2, <2>3, <2>4
<1> QED BY <1>2, <1>3, <1>4, <1>5, <1>6, <1>7, StepCases

LEMMA PromiseInvariant == BleSpec => []PromiseInv
<1>1. BleInit => PromiseInv
  <2>1. BleInit => BleTypeOK
    BY BleBounds DEF BleInit, BleTypeOK, NoHandler, NoModes, Modes
  <2>2. BleInit => IdsUsed /\ KeptIsPromised /\ PromisedIsKept
    BY DEF BleInit, IdsUsed, KeptIsPromised, PromisedIsKept, Fresh
  <2>3. BleInit => RecordedIsFirst /\ RecordedIsKnown
    BY DEF BleInit, RecordedIsFirst, RecordedIsKnown, NoModes, Fresh
  <2> QED BY <2>1, <2>2, <2>3 DEF PromiseInv
<1> QED BY <1>1, PromiseStep, PTL DEF BleSpec

(* Who is notified by a device was promised so and has not been cancelled, *)
(* by a characteristic that somebody was promised, or was told that the    *)
(* subscription failed.                                                    *)
THEOREM NotifiedWerePromised == BleSpec => []NotifiedIsPromised
<1>1. PromiseInv => NotifiedIsPromised
  <2> SUFFICES ASSUME PromiseInv, NEW d \in Devices, NEW x \in Chars, NEW m \in ccc[d][x],
                      handler[d][x][m] \notin doubtful
               PROVE  /\ \E p \in promised :
                            p.dev = d /\ p.mode = m /\ p.id = handler[d][x][m]
                      /\ \E p \in promised : p.dev = d /\ p.ch = x
    BY DEF NotifiedIsPromised
  <2>1. m \in flags[d][x]
    BY DEF PromiseInv, BleTypeOK
  <2>2. Known(d, x, m)
    BY <2>1 DEF PromiseInv, RecordedIsKnown
  <2>3. PICK p \in promised : p.dev = d /\ p.mode = m /\ p.id = handler[d][x][m]
    BY <2>2 DEF Known
  <2>4. ~Fresh(d)
    BY <2>3 DEF PromiseInv, PromisedIsKept
  <2>5. x = kept[d]
    BY <2>1, <2>4 DEF PromiseInv, RecordedIsFirst
  <2>6. \E q \in promised : q.dev = d /\ q.ch = x
    BY <2>4, <2>5 DEF PromiseInv, KeptIsPromised, Founds
  <2> QED BY <2>3, <2>6
<1> QED BY <1>1, PromiseInvariant, PTL

(* A read or a write reaches another characteristic than the one it names  *)
(* only when that one was promised to a subscriber of the device.          *)
THEOREM WrongWerePromised == BleSpec => WrongIsPromised
<1> DEFINE Wrong == touched' # touched =>
              \/ touched'[3] \in {touched'[2], Nothing}
              \/ \E p \in promised : p.dev = touched'[1] /\ p.ch = touched'[3]
<1>1. ASSUME PromiseInv, [BleNext]_bleVars
      PROVE  [Wrong]_bleVars
  <2>1. ASSUME NEW d \in Devices, NEW c \in Chars, ReadChar(d, c) \/ WriteChar(d, c)
        PROVE  Wrong
    <3>1. PICK used \in Reached(d, c) : touched' = <<d, c, used>>
      BY <2>1 DEF ReadChar, WriteChar, Visit
    <3>2. used = Nothing \/ used = c \/ (~Fresh(d) /\ used = kept[d])
      BY <3>1 DEF Reached, Chosen
    <3>3. ~Fresh(d) => \E p \in promised : p.dev = d /\ p.ch = kept[d]
      BY <1>1 DEF PromiseInv, KeptIsPromised, Founds
    <3> QED BY <3>1, <3>2, <3>3
  <2>2. CASE UNCHANGED touched
    BY <2>2
  <2>3. Scan => UNCHANGED touched
    BY DEF Scan
  <2>4. \A d \in Devices : Drop(d) => UNCHANGED touched
    BY DEF Drop
  <2>5. ASSUME NEW d \in Devices, Call(d),
               ~\E c \in Chars : ReadChar(d, c) \/ WriteChar(d, c)
        PROVE  UNCHANGED touched
    BY <2>5 DEF Call, Discover, SubscribeLost, Subscribe, Cancel, CancelFails
  <2> QED BY <1>1, <2>1, <2>2, <2>3, <2>4, <2>5 DEF BleNext, bleVars
<1>2. [Wrong]_bleVars => [touched' # touched =>
          \/ touched'[3] \in {touched'[2], Nothing}
          \/ \E p \in promised : p.dev = touched'[1] /\ p.ch = touched'[3]]_bleVars
  OBVIOUS
<1> HIDE DEF Wrong
<1> QED BY <1>1, <1>2, PromiseInvariant, PTL DEF BleSpec, WrongIsPromised

-----------------------------------------------------------------------------
(* The first promise                                                       *)

Served(p) == Serves(p, kept[p.dev])

(* Whatever it names, it is the first characteristic that serves it.       *)
FirstIsServedFirst ==
    \A p \in promised : p.dev \in link \ halfway /\ FirstOf(p) => Served(p)

(* A subscription leaves what is served served, and serves what it         *)
(* promises itself when nobody else was promised the same.                 *)
LEMMA SubscribeServes ==
    ASSUME PromiseInv, FirstIsServedFirst,
           NEW d \in Devices, NEW c \in Chars, NEW m \in Modes, NEW ok \in BOOLEAN,
           Subscribe(d, c, m, ok)
    PROVE  FirstIsServedFirst'
<1> DEFINE new == [id |-> NewId, dev |-> d, ch |-> c, mode |-> m]
           x == Chosen(d, c)
<1> SUFFICES ASSUME NEW p \in promised', p.dev \in link' \ halfway', FirstOf(p)'
             PROVE  Served(p)'
  BY DEF FirstIsServedFirst
<1>1. /\ ok => promised' = promised \cup {new} /\ doubtful' = doubtful
      /\ ~ok => promised' = promised
      /\ promised \subseteq promised' /\ doubtful \subseteq doubtful'
      /\ link' = link \cup {d} /\ halfway' = halfway
      /\ new.id = NewId /\ new.dev = d /\ new.mode = m
  BY DEF Subscribe
<1>2. BleTypeOK
  BY DEF PromiseInv
<1>3. /\ x \in Chars
      /\ Recorded(d, x, m) /\ Written(d, x, m, ok)
  BY <1>2, SubscribeFacts
<1>a. /\ x = IF kept[d] = Nothing THEN c ELSE kept[d]
      /\ \A e \in Devices : e # d \/ kept[d] # Nothing => kept'[e] = kept[e]
      /\ kept[d] = Nothing /\ ok => kept'[d] = c
      /\ kept[d] # Nothing => d \in link
  BY <1>2 DEF Chosen, Fresh, Subscribe, Keep, Reachable, BleTypeOK
<1> HIDE DEF new, x
<1>4. CASE p \in promised
  <2>1. p.dev \in Devices /\ p.mode \in Modes /\ kept[p.dev] # Nothing /\ kept[p.dev] \in Chars
    BY <1>2, <1>4 DEF BleTypeOK, Promises, PromiseInv, PromisedIsKept, Fresh
  <2>2. p.dev \in link \ halfway /\ kept'[p.dev] = kept[p.dev]
    BY <1>1, <1>a, <2>1
  <2>3. Served(p)
    <3>1. FirstOf(p)
      BY <1>1 DEF FirstOf
    <3> QED BY <1>4, <2>2, <3>1 DEF FirstIsServedFirst
  <2> DEFINE k == kept[p.dev]
  <2>4. /\ p.mode \in ccc[p.dev][k] /\ handler[p.dev][k][p.mode] = p.id
        /\ p.mode \in flags[p.dev][k]
    BY <1>2, <2>1, <2>3 DEF Served, Serves, BleTypeOK
  <2>5. handler'[p.dev][k][p.mode] = p.id /\ p.mode \in ccc'[p.dev][k]
    <3>1. CASE p.dev # d \/ k # x
      BY <1>3, <2>1, <2>4, <3>1 DEF Recorded, Written
    <3>2. CASE p.dev = d /\ k = x
      <4>1. p.mode # m \/ m \in flags[d][x]
        BY <2>4, <3>2
      <4>2. handler'[d][x][p.mode] = handler[d][x][p.mode]
        BY <1>3, <2>1, <4>1 DEF Recorded
      <4>3. p.mode \in ccc'[d][x]
        BY <1>3, <2>4, <3>2 DEF Written
      <4> QED BY <2>4, <3>2, <4>2, <4>3
    <3> QED BY <3>1, <3>2
  <2> QED BY <2>2, <2>5 DEF Served, Serves
<1>5. CASE p \notin promised
  <2>1. ok /\ p = new
    BY <1>1, <1>5
  <2>2. p.id = subs + 1 /\ p.dev = d /\ p.mode = m /\ subs \in Nat
    BY <1>1, <1>2, <2>1, BleBounds DEF NewId, BleTypeOK
  <2>3. m \notin flags[d][x]
    <3> SUFFICES ASSUME m \in flags[d][x] PROVE FALSE
      OBVIOUS
    <3>1. Known(d, x, m)
      BY <1>3 DEF PromiseInv, RecordedIsKnown
    <3>2. ASSUME handler[d][x][m] \in doubtful
          PROVE  FALSE
      <4>1. handler[d][x][m] > p.id
        BY <1>1, <3>2 DEF FirstOf
      <4>2. handler[d][x][m] <= subs /\ handler[d][x][m] \in Nat
        BY <1>2, <1>3, <3>2, BleBounds DEF PromiseInv, IdsUsed, BleTypeOK, Ids
      <4> QED BY <2>2, <4>1, <4>2
    <3>3. ASSUME NEW q \in promised, q.dev = d, q.mode = m
          PROVE  FALSE
      <4>1. p.id <= q.id
        BY <1>1, <2>2, <3>3 DEF FirstOf
      <4>2. q.id <= subs /\ q.id \in Nat
        BY <1>2, BleBounds DEF PromiseInv, IdsUsed, BleTypeOK, Promises, Ids
      <4> QED BY <2>2, <4>1, <4>2
    <3> QED BY <3>1, <3>2, <3>3 DEF Known
  <2>4. handler'[d][x][m] = NewId
    BY <1>3, <2>3 DEF Recorded
  <2>5. m \in ccc'[d][x]
    BY <1>3, <2>1, <2>3 DEF Written
  <2>6. kept'[d] = x
    BY <1>a, <2>1
  <2> QED BY <2>2, <2>4, <2>5, <2>6 DEF Served, Serves, NewId
<1> QED BY <1>4, <1>5

LEMMA FirstStep ==
    ASSUME PromiseInv, FirstIsServedFirst, [BleNext]_bleVars
    PROVE  FirstIsServedFirst'
<1>0. BleTypeOK
  BY DEF PromiseInv
<1>1. CASE Quiet
  BY <1>1 DEF Quiet, FirstIsServedFirst, FirstOf, Served, Serves
<1>2. ASSUME NEW d \in Devices, SubscribeLost(d)
      PROVE  FirstIsServedFirst'
  <2>1. UNCHANGED <<kept, handler, ccc, promised, doubtful, halfway>> /\ link' = link \cup {d}
    BY <1>2 DEF SubscribeLost, client
  <2>2. \A p \in promised : p.dev # d
    BY <1>2 DEF SubscribeLost, PromiseInv, PromisedIsKept
  <2> QED BY <2>1, <2>2 DEF FirstIsServedFirst, FirstOf, Served, Serves
<1>3. ASSUME NEW d \in Devices, NEW c \in Chars, NEW m \in Modes, NEW ok \in BOOLEAN,
             Subscribe(d, c, m, ok)
      PROVE  FirstIsServedFirst'
  BY <1>3, SubscribeServes
<1>4. ASSUME NEW d \in Devices, Cancel(d)
      PROVE  FirstIsServedFirst'
  <2> SUFFICES ASSUME NEW p \in promised', p.dev \in link' \ halfway', FirstOf(p)'
               PROVE  Served(p)'
    BY DEF FirstIsServedFirst
  <2>1. /\ promised' = {q \in promised : q.dev # d} /\ Clean(d)
        /\ kept' = [kept EXCEPT ![d] = Nothing]
        /\ link' = link \ {d} /\ halfway' = halfway \ {d} /\ doubtful' = doubtful
    BY <1>4 DEF Cancel
  <2>2. p \in promised /\ p.dev # d /\ p.dev \in link \ halfway /\ p.dev \in Devices
    BY <1>0, <2>1 DEF BleTypeOK, Promises
  <2>3. FirstOf(p)
    BY <2>1, <2>2 DEF FirstOf
  <2>4. Served(p)
    BY <2>2, <2>3 DEF FirstIsServedFirst
  <2>5. handler'[p.dev] = handler[p.dev] /\ ccc'[p.dev] = ccc[p.dev]
    BY <1>0, <2>1, <2>2, CleanFacts
  <2>6. kept'[p.dev] = kept[p.dev]
    BY <1>0, <2>1, <2>2 DEF BleTypeOK
  <2> QED BY <2>4, <2>5, <2>6 DEF Served, Serves
<1>5. ASSUME NEW d \in Devices, CancelFails(d) \/ Drop(d)
      PROVE  FirstIsServedFirst'
  <2> SUFFICES ASSUME NEW p \in promised', p.dev \in link' \ halfway', FirstOf(p)'
               PROVE  Served(p)'
    BY DEF FirstIsServedFirst
  <2>1. UNCHANGED <<kept, promised, doubtful>> /\ p.dev \in Devices
    BY <1>0, <1>5 DEF CancelFails, Drop, promises, BleTypeOK, Promises
  <2>2. p.dev # d /\ p.dev \in link \ halfway
    BY <1>5 DEF CancelFails, Drop, promises
  <2>3. handler'[p.dev] = handler[p.dev] /\ ccc'[p.dev] = ccc[p.dev]
    <3>1. CASE CancelFails(d)
      BY <1>0, <2>1, <2>2, <3>1 DEF CancelFails, BleTypeOK
    <3>2. CASE Drop(d) /\ Fresh(d)
      <4>1. Clean(d)
        BY <3>2 DEF Drop
      <4> QED BY <1>0, <2>1, <2>2, <4>1, CleanFacts
    <3>3. CASE Drop(d) /\ ~Fresh(d)
      BY <1>0, <2>1, <2>2, <3>3 DEF Drop, BleTypeOK
    <3> QED BY <1>5, <3>1, <3>2, <3>3
  <2>4. FirstOf(p)
    BY <2>1 DEF FirstOf
  <2>5. Served(p)
    BY <2>1, <2>2, <2>4 DEF FirstIsServedFirst
  <2> QED BY <2>1, <2>3, <2>5 DEF Served, Serves
<1> QED BY <1>0, <1>1, <1>2, <1>3, <1>4, <1>5, StepCases

(* The first promise for a device and a mode is served for as long as the  *)
(* device stays, unless a cancellation or an earlier subscription failed;  *)
(* by its own characteristic, unless an earlier promise in the other mode  *)
(* has made the client for another one, and then never by its own.         *)
THEOREM FirstIsServed == BleSpec => []FirstPromiseIsServed
<1>1. BleInit => FirstIsServedFirst
  BY DEF BleInit, FirstIsServedFirst
<1>2. PromiseInv /\ FirstIsServedFirst => FirstPromiseIsServed
  <2> SUFFICES ASSUME PromiseInv, FirstIsServedFirst,
                      NEW p \in promised, p.dev \in link \ halfway, FirstOf(p),
                      ~Serves(p, p.ch)
               PROVE  \E q \in promised :
                        /\ q.dev = p.dev /\ q.id < p.id /\ q.mode # p.mode
                        /\ q.ch # p.ch
                        /\ Serves(p, q.ch) /\ p.mode \notin ccc[p.dev][p.ch]
    BY DEF FirstPromiseIsServed
  <2>1. Serves(p, kept[p.dev])
    BY DEF FirstIsServedFirst, Served
  <2>2. p.dev \in Devices /\ p.ch \in Chars /\ p.id \in Nat
    BY BleBounds DEF PromiseInv, BleTypeOK, Promises, Ids
  <2>3. PICK q \in promised : Founds(q, p.dev)
    BY <2>2 DEF PromiseInv, PromisedIsKept, KeptIsPromised
  <2>4. q.id \in Nat
    BY BleBounds DEF PromiseInv, BleTypeOK, Promises, Ids
  <2>5. q.dev = p.dev /\ q.ch # p.ch /\ Serves(p, q.ch)
    BY <2>1, <2>3 DEF Founds
  <2>6. q.id < p.id
    <3>1. q.id <= p.id
      BY <2>3 DEF Founds
    <3>2. q.id # p.id
      BY <2>5 DEF PromiseInv, IdsUsed
    <3> QED BY <2>2, <2>4, <3>1, <3>2
  <2>7. q.mode # p.mode
    <3>1. q.mode = p.mode => p.id <= q.id
      BY <2>5 DEF FirstOf
    <3> QED BY <2>2, <2>4, <2>6, <3>1
  <2>8. p.mode \notin ccc[p.dev][p.ch]
    <3>1. kept[p.dev] # Nothing /\ p.ch # kept[p.dev]
      BY <2>3, <2>5 DEF PromiseInv, PromisedIsKept, Founds, Fresh
    <3>2. flags[p.dev][p.ch] = {}
      BY <2>2, <3>1 DEF PromiseInv, RecordedIsFirst, Fresh
    <3> QED BY <2>2, <3>2 DEF PromiseInv, BleTypeOK
  <2> QED BY <2>5, <2>6, <2>7, <2>8
<1> QED BY <1>1, <1>2, FirstStep, PromiseInvariant, PTL DEF BleSpec
=============================================================================
