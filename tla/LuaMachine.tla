----------------------------- MODULE LuaMachine -----------------------------
(***************************************************************************)
(* The Lua machine of the core (src/pkg/lua/lua.go): Execute runs the      *)
(* expression of a parameter over a reading.  Every execution has a thread *)
(* of its own, but all threads share the globals, where Execute leaves the *)
(* reading under the name `param'.  Whoever calls takes the reading itself *)
(* when there is no expression, it fails or it returns nil.                *)
(***************************************************************************)
EXTENDS Naturals

CONSTANTS
    Workers,     \* goroutines: the relay, read calls, write requests
    Readings,    \* values that connectors deliver
    Opaque,      \* readings toVal has no type for: maps and arrays
    Coded,       \* readings of parameters that have an expression
    Code(_),     \* what the expressions make of a reading
    NoValue

ASSUME LuaReadings == Opaque \cup Coded \subseteq Readings /\ NoValue \notin Readings

VARIABLES
    param,     \* the global
    lua,       \* of each worker: "idle", "set", "run" or "done"
    arg,       \* the reading of its execution
    res,       \* the value it ends with
    mixed,     \* history: workers whose execution met another one
    killed     \* the runtime has found two accesses to the map of globals

luaVars == <<param, lua, arg, res, mixed, killed>>

LuaInit ==
    /\ param = NoValue
    /\ lua = [w \in Workers |-> "idle"]
    /\ arg = [w \in Workers |-> NoValue]
    /\ res = [w \in Workers |-> NoValue]
    /\ mixed = {}
    /\ killed = FALSE

Executing == {w \in Workers : lua[w] \in {"set", "run"}}

(* funcs[name] and toVal; nothing is shared so far.                        *)
Execute(w, v) ==
    /\ lua[w] = "idle"
    /\ arg' = [arg EXCEPT ![w] = v]
    /\ IF v \in Coded \ Opaque
         THEN /\ lua' = [lua EXCEPT ![w] = "set"]
              /\ mixed' = IF Executing = {} THEN mixed \ {w}
                          ELSE mixed \cup Executing \cup {w}
              /\ UNCHANGED res
         ELSE /\ lua' = [lua EXCEPT ![w] = "done"]
              /\ res' = [res EXCEPT ![w] = v]
              /\ mixed' = mixed \ {w}
    /\ UNCHANGED <<param, killed>>

\* Mutant of SetGlobal: the global is set once.
SetGlobalOnce(w) ==
    /\ lua[w] = "set"
    /\ param' = IF param = NoValue THEN arg[w] ELSE param
    /\ lua' = [lua EXCEPT ![w] = "run"]
    /\ killed' \in {FALSE, Executing # {w}}
    /\ UNCHANGED <<arg, res, mixed>>

(* SetGlobal writes to the map that another execution may write or read.   *)
SetGlobal(w) ==
    /\ lua[w] = "set"
    /\ param' = arg[w]
    /\ lua' = [lua EXCEPT ![w] = "run"]
    /\ killed' \in {FALSE, Executing # {w}}
    /\ UNCHANGED <<arg, res, mixed>>

(* PCall, one minute at most, and valTo; an error or nil is the reading.   *)
PCall(w) ==
    /\ lua[w] = "run"
    /\ lua' = [lua EXCEPT ![w] = "done"]
    /\ \E v \in {Code(param), arg[w]} : res' = [res EXCEPT ![w] = v]
    /\ UNCHANGED <<param, arg, mixed, killed>>

(* The caller takes the value.                                             *)
Taken(w) ==
    /\ lua[w] = "done"
    /\ lua' = [lua EXCEPT ![w] = "idle"]
    /\ arg' = [arg EXCEPT ![w] = NoValue]
    /\ res' = [res EXCEPT ![w] = NoValue]
    /\ UNCHANGED <<param, mixed, killed>>

-----------------------------------------------------------------------------
(* A reading becomes what its own expression makes of it, or stays as it   *)
(* is, unless another execution met this one; and only such a meeting can  *)
(* end the process (lua.go:79-91: the global is set, then read).           *)
OwnUnlessMixed ==
    /\ \A w \in Workers :
          lua[w] = "done" /\ w \notin mixed => res[w] \in {arg[w], Code(arg[w])}
    /\ killed => mixed # {}
=============================================================================
