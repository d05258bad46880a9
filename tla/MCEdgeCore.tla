----------------------------- MODULE MCEdgeCore -----------------------------
(* Instances of EdgeCore: one connector type, calls with their own ids.    *)
EXTENDS EdgeCore

OneType(S, T) == [x \in S |-> CHOOSE t \in T : TRUE]
MCTypeOf == OneType(Socks, Types)
MCTargetOf == OneType(Calls, Types)
MCIdOf == [c \in Calls |-> c]
MCIds == Calls \cup {NullId}
=============================================================================
