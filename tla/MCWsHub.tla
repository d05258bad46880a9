------------------------------- MODULE MCWsHub ------------------------------
(* Instances of WsHub: one connector type, calls with their own ids. *)
EXTENDS WsHub

OneType(S, T) == [x \in S |-> CHOOSE t \in T : TRUE]
MCTypeOf == OneType(Socks, Types)
MCTargetOf == OneType(Calls, Types)
MCIdOf == [c \in Calls |-> c]
MCIds == Calls \cup {NullId}
=============================================================================
