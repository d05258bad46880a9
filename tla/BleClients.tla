------------------------------ MODULE BleClients ------------------------------
(***************************************************************************)
(* The BLE connector's handler (internal/app/ble/handler): every call      *)
(* dials the device, works and hangs up, except that a subscription keeps  *)
(* its client in `conns`, where later calls for the device find it.        *)
(*                                                                         *)
(* jsonrpc.Serve runs one call at a time, so a call is one action, with    *)
(* the place where it fails left open.  Devices come and go in between.    *)
(*                                                                         *)
(* Of the library (third_party/go-ble): a client appends what it discovers *)
(* to its profile, so srv[0].ch[0] is for ever the characteristic that was *)
(* discovered first, and every call on a kept client acts on that one; a   *)
(* client records its subscriptions by characteristic; Subscribe does      *)
(* nothing for a mode that is recorded already, and records before it      *)
(* writes; a device that is connected cannot be dialed; CancelConnection   *)
(* never fails.                                                            *)
(***************************************************************************)
EXTENDS Naturals

CONSTANTS
    Devices,      \* addresses
    Chars,        \* pairs of service and characteristic that calls name
    Absent,       \* those that no device has
    Nothing,      \* in the place of a characteristic: none, or an error
    MaxSubs       \* calls of subscribe during a run

ASSUME BleBounds == MaxSubs \in Nat /\ Absent \subseteq Chars /\ Nothing \notin Chars

Modes == {"notify", "indicate"}
Ids == 1 .. MaxSubs

(* What subscribe answered: the id of the notifications, and for what.     *)
Promises == [id : Ids, dev : Devices, ch : Chars, mode : Modes]

VARIABLES
    link,      \* devices with a connection
    kept,      \* conns: the first characteristic of the client kept, or Nothing
    flags,     \* the modes each client has recorded of a characteristic (subs)
    handler,   \* the id it calls back with for each mode, 0 for none
    ccc,       \* the modes that are on at each characteristic of a device
    subs,      \* calls of subscribe so far
    promised,  \* promises that have not been cancelled
    doubtful,  \* ids of subscriptions whose last write failed
    halfway,   \* devices with a cancellation that failed after the last one
    life,      \* "up" or "dead"
    dialed,    \* history: the last call that dialed each device
    touched    \* history: device, characteristic asked for, and the one used

client == <<flags, handler, ccc>>
promises == <<subs, promised, doubtful, halfway>>
bleVars == <<link, kept, client, promises, life, dialed, touched>>

NoModes == [x \in Chars |-> {}]
NoHandler == [x \in Chars |-> [m \in Modes |-> 0]]

BleInit ==
    /\ link = {}
    /\ kept = [d \in Devices |-> Nothing]
    /\ flags = [d \in Devices |-> NoModes]
    /\ handler = [d \in Devices |-> NoHandler]
    /\ ccc = [d \in Devices |-> NoModes]
    /\ subs = 0
    /\ promised = {}
    /\ doubtful = {}
    /\ halfway = {}
    /\ life = "up"
    /\ dialed = [d \in Devices |-> "none"]
    /\ touched = <<>>

Fresh(d) == kept[d] = Nothing

(* srv[0].ch[0] of a call that names c.                                    *)
Chosen(d, c) == IF Fresh(d) THEN c ELSE kept[d]

(* A device is there for a client that is kept and for one that dials.     *)
Reachable(d, c) ==
    IF Fresh(d) THEN d \notin link /\ c \notin Absent ELSE d \in link

-----------------------------------------------------------------------------
(* Calls that hang up a client that they have dialed                       *)

(* What a call for c can end up with: an error, or a characteristic.       *)
Reached(d, c) ==
    {Nothing} \cup IF Reachable(d, c) THEN {Chosen(d, c)} ELSE {}

\* Mutant of HangUp: a call that fails after the dial does not hang up.
HangUpOnSuccess(d, used) ==
    link' \in {link, IF used = Nothing THEN link \cup {d} ELSE link}

(* The deferred CancelConnection, which also runs when srv[0] or ch[0]     *)
(* panics.                                                                 *)
HangUp(d, used) == link' = link

Visit(d, c, method) ==
    \E used \in Reached(d, c) :
        /\ touched' = <<d, c, used>>
        /\ HangUp(d, used)
        /\ dialed' = IF Fresh(d) /\ d \notin link
                     THEN [dialed EXCEPT ![d] = method] ELSE dialed
        /\ UNCHANGED <<kept, client, promises, life>>

ReadChar(d, c) == Visit(d, c, "read")

WriteChar(d, c) == Visit(d, c, "write")

(* DiscoverProfile touches no value, and appends to what was discovered.   *)
Discover(d) ==
    /\ dialed' = IF Fresh(d) /\ d \notin link
                 THEN [dialed EXCEPT ![d] = "discover"] ELSE dialed
    /\ UNCHANGED <<link, kept, client, promises, life, touched>>

-----------------------------------------------------------------------------
(* subscribe                                                               *)

NewId == subs + 1

(* DiscoverServices, srv[0], ch[0] or the missing descriptor fail: the     *)
(* client that was dialed stays connected and is forgotten.                *)
SubscribeLost(d) ==
    /\ subs < MaxSubs
    /\ Fresh(d)
    /\ d \notin link
    /\ subs' = NewId
    /\ link' = link \cup {d}
    /\ dialed' = [dialed EXCEPT ![d] = "subscribe"]
    /\ UNCHANGED <<kept, client, promised, doubtful, halfway, life, touched>>

\* Mutant of Record: the handler of a mode that is on is replaced.
RecordAnyway(d, x, m) ==
    /\ flags' = [flags EXCEPT ![d][x] = @ \cup {m}]
    /\ handler' = [handler EXCEPT ![d][x][m] = NewId]

(* setHandlers: a mode that is on keeps its handler.                       *)
Record(d, x, m) ==
    IF m \in flags[d][x]
      THEN UNCHANGED <<flags, handler>>
      ELSE /\ flags' = [flags EXCEPT ![d][x] = @ \cup {m}]
           /\ handler' = [handler EXCEPT ![d][x][m] = NewId]

(* The device turns on what the client has recorded, or does not.          *)
Write(d, x, m, done) ==
    ccc' = IF done /\ m \notin flags[d][x]
           THEN [ccc EXCEPT ![d][x] = flags[d][x] \cup {m}] ELSE ccc

\* Mutant of Keep: the client is kept before its subscription is known.
KeepFailed(d, c, ok) ==
    kept' = IF Fresh(d) THEN [kept EXCEPT ![d] = c] ELSE kept

Keep(d, c, ok) ==
    kept' = IF Fresh(d) /\ ok THEN [kept EXCEPT ![d] = c] ELSE kept

(* The subscription is promised for c, and is one of the first             *)
(* characteristic of the client.  Subscribe fails only when a mode that    *)
(* was off is written; the device may have turned it on although the       *)
(* client has got no answer.                                               *)
Subscribe(d, c, m, ok) ==
    /\ subs < MaxSubs
    /\ Reachable(d, c)
    /\ m \in flags[d][Chosen(d, c)] => ok
    /\ subs' = NewId
    /\ link' = link \cup {d}
    /\ dialed' = IF Fresh(d) THEN [dialed EXCEPT ![d] = "subscribe"] ELSE dialed
    /\ Record(d, Chosen(d, c), m)
    /\ \E done \in BOOLEAN : (ok => done) /\ Write(d, Chosen(d, c), m, done)
    /\ Keep(d, c, ok)
    /\ promised' = IF ok THEN promised \cup
                        {[id |-> NewId, dev |-> d, ch |-> c, mode |-> m]}
                   ELSE promised
    /\ doubtful' = IF ok THEN doubtful ELSE doubtful \cup {NewId}
    /\ UNCHANGED <<halfway, life, touched>>

-----------------------------------------------------------------------------
(* subscribeCancel                                                         *)

Clean(d) ==
    /\ flags' = [flags EXCEPT ![d] = NoModes]
    /\ handler' = [handler EXCEPT ![d] = NoHandler]
    /\ ccc' = [ccc EXCEPT ![d] = NoModes]

\* Mutant of Cancel: the client is taken from conns but not hung up.
CancelKeepsLink(d) ==
    /\ ~Fresh(d)
    /\ d \in link
    /\ kept' = [kept EXCEPT ![d] = Nothing]
    /\ promised' = {p \in promised : p.dev # d}
    /\ halfway' = halfway \ {d}
    /\ UNCHANGED <<link, client, subs, doubtful, life, dialed, touched>>

Cancel(d) ==
    /\ ~Fresh(d)
    /\ d \in link
    /\ Clean(d)
    /\ link' = link \ {d}
    /\ kept' = [kept EXCEPT ![d] = Nothing]
    /\ promised' = {p \in promised : p.dev # d}
    /\ halfway' = halfway \ {d}
    /\ UNCHANGED <<subs, doubtful, life, dialed, touched>>

(* ClearSubscriptions fails: on a connection that is gone always.  The     *)
(* client has recorded one characteristic, so the write is one.            *)
CancelFails(d) ==
    /\ ~Fresh(d)
    /\ ccc' \in {ccc, [ccc EXCEPT ![d] = NoModes]}
    /\ halfway' = halfway \cup {d}
    /\ UNCHANGED <<link, kept, flags, handler, subs, promised, doubtful, life,
                   dialed, touched>>

-----------------------------------------------------------------------------
(* scan lists the devices it hears; of each only the first advertisement   *)
(* is looked at for a beacon.  A beacon that is no URL panics in the       *)
(* goroutine that receives, where nothing recovers.                        *)
Adverts == {"silent", "no beacon", "url beacon", "other beacon"}

Scan ==
    /\ \E first \in [Devices -> Adverts] :
          life' = IF \E d \in Devices : first[d] = "other beacon"
                  THEN "dead" ELSE life
    /\ UNCHANGED <<link, kept, client, promises, dialed, touched>>

-----------------------------------------------------------------------------
(* The device goes away.  A client that was kept stays in conns.           *)
Drop(d) ==
    /\ d \in link
    /\ link' = link \ {d}
    /\ IF Fresh(d) THEN Clean(d)
       ELSE ccc' = [ccc EXCEPT ![d] = NoModes] /\ UNCHANGED <<flags, handler>>
    /\ UNCHANGED <<kept, promises, life, dialed, touched>>

Call(d) ==
    \/ \E c \in Chars : ReadChar(d, c) \/ WriteChar(d, c)
    \/ Discover(d)
    \/ SubscribeLost(d)
    \/ \E c \in Chars, m \in Modes, ok \in BOOLEAN : Subscribe(d, c, m, ok)
    \/ Cancel(d)
    \/ CancelFails(d)

BleNext ==
    /\ life = "up"
    /\ Scan \/ \E d \in Devices : Call(d) \/ Drop(d)

BleSpec == BleInit /\ [][BleNext]_bleVars

(* Whoever has subscribed cancels in the end.                              *)
BleFairSpec ==
    BleSpec /\ \A d \in Devices : WF_bleVars(life = "up" /\ (Cancel(d) \/ CancelFails(d)))

-----------------------------------------------------------------------------
(* Types; a device that is not connected has nothing turned on, and what   *)
(* is on is recorded with a handler.                                       *)
BleTypeOK ==
    /\ link \subseteq Devices
    /\ kept \in [Devices -> Chars \cup {Nothing}]
    /\ flags \in [Devices -> [Chars -> SUBSET Modes]]
    /\ handler \in [Devices -> [Chars -> [Modes -> 0 .. MaxSubs]]]
    /\ ccc \in [Devices -> [Chars -> SUBSET Modes]]
    /\ subs \in 0 .. MaxSubs
    /\ promised \subseteq Promises
    /\ doubtful \subseteq Ids
    /\ halfway \subseteq Devices
    /\ life \in {"up", "dead"}
    /\ dialed \in [Devices -> {"none", "read", "write", "discover", "subscribe"}]
    /\ \A d \in Devices, x \in Chars :
          /\ d \notin link => ccc[d][x] = {}
          /\ \A m \in flags[d][x] : handler[d][x][m] # 0
          /\ ccc[d][x] \subseteq flags[d][x]

(* Between the calls the one connection a device allows is held by a       *)
(* client in conns, or else the last call that dialed was a subscribe      *)
(* (handler.go:167, 217, 253 hang up, 301-323 do not).                     *)
OnlySubscribeLeaks ==
    \A d \in link : Fresh(d) => dialed[d] = "subscribe"

(* A call reads or writes another characteristic than the one it names     *)
(* only while the device has a promise, and then the promised one          *)
(* (handler.go:228-233, 264-276: srv[0] and ch[0] of a client kept).       *)
WrongIsPromised ==
    [][touched' # touched =>
          \/ touched'[3] \in {touched'[2], Nothing}
          \/ \E p \in promised : p.dev = touched'[1] /\ p.ch = touched'[3]]_bleVars

(* Who is notified by a characteristic has a promise of the device in that *)
(* mode that was not cancelled, and somebody was promised this             *)
(* characteristic; or the last write of the subscribe failed               *)
(* (handler.go:316-329, 340-350).                                          *)
NotifiedIsPromised ==
    \A d \in Devices, x \in Chars : \A m \in ccc[d][x] :
        \/ handler[d][x][m] \in doubtful
        \/ /\ \E p \in promised :
                 p.dev = d /\ p.mode = m /\ p.id = handler[d][x][m]
           /\ \E p \in promised : p.dev = d /\ p.ch = x

(* A characteristic is on, and calls back with the id of a promise.        *)
Serves(p, x) == p.mode \in ccc[p.dev][x] /\ handler[p.dev][x][p.mode] = p.id

(* The first promise for a device and a mode is served for as long as the  *)
(* device stays, unless a cancellation or an earlier subscribe of the      *)
(* device failed in the middle; the later ones are not (handler.go:318).   *)
(* It is served by its own characteristic, unless an earlier promise, in   *)
(* the other mode, has made its client for another one: the subscriber     *)
(* then hears that one, and never its own (handler.go:306-318).            *)
FirstOf(p) ==
    /\ \A q \in promised : q.dev = p.dev /\ q.mode = p.mode => p.id <= q.id
    /\ \A i \in doubtful : i > p.id
FirstPromiseIsServed ==
    \A p \in promised : p.dev \in link \ halfway /\ FirstOf(p) =>
        \/ Serves(p, p.ch)
        \/ \E q \in promised :
              /\ q.dev = p.dev /\ q.id < p.id /\ q.mode # p.mode
              /\ q.ch # p.ch
              /\ Serves(p, q.ch) /\ p.mode \notin ccc[p.dev][p.ch]

(* "when subscription dies client removes from map" (handler.go:45).       *)
DeadIsRemoved ==
    \A d \in Devices : 
        ~Fresh(d) /\ d \notin link ~> (Fresh(d) \/ life = "dead")
=============================================================================
