---------------------------- MODULE ReadingsStore ----------------------------
(***************************************************************************)
(* What the core does with a reading, in the relay and in every read call  *)
(* at the same time (internal/app/core/rpc/interceptor.go:185-216,         *)
(* 401-432): LuaMachine makes a value of it, and StateStore keeps it under *)
(* the name of its parameter.  That it is published then is in EdgeCore.   *)
(***************************************************************************)
EXTENDS StateStore, LuaMachine

CONSTANT KeyOf(_)     \* the parameter of each reading

ASSUME ReadingKeys ==
    /\ Writers = Workers
    /\ Readings \cup {Code(v) : v \in Readings} \subseteq Values
    /\ \A v \in Readings : KeyOf(v) \in Keys

readingVars == <<storeVars, luaVars>>

ReadingsInit == StoreInit /\ LuaInit

(* A notification or the answer to a read call, decoded from base64.       *)
Take(w, v) ==
    /\ up
    /\ set[w] = None
    /\ Execute(w, v)
    /\ UNCHANGED storeVars

Convert(w) ==
    /\ up
    /\ SetGlobal(w) \/ PCall(w)
    /\ UNCHANGED storeVars

Keep(w) ==
    /\ Taken(w)
    /\ SetMemory(w, KeyOf(arg[w]), res[w])

Finish(w) ==
    /\ SetStep(w)
    /\ UNCHANGED luaVars

(* The process ends, by itself or by the runtime, and loses its memory.    *)
Halt ==
    /\ Stop
    /\ lua' = [w \in Workers |-> "idle"]
    /\ param' = NoValue
    /\ arg' = [w \in Workers |-> NoValue]
    /\ res' = arg'
    /\ mixed' = {}
    /\ killed' = FALSE

Restart ==
    /\ \E clean \in CleanChoices : Start(clean)
    /\ UNCHANGED luaVars

ReadingsNext ==
    \/ Restart
    \/ Halt
    \/ /\ ~killed
       /\ \E w \in Writers : \/ \E v \in Readings : Take(w, v)
                             \/ Convert(w) \/ Keep(w) \/ Finish(w)

ReadingsSpec == ReadingsInit /\ [][ReadingsNext]_readingVars
=============================================================================
