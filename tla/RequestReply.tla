---------------------------- MODULE RequestReply ----------------------------
(***************************************************************************)
(* What the core promises to whoever calls a connector through it (the     *)
(* MQTT handler, a cron job, a subscription): every call gets at most one  *)
(* result, an answer is the call's own and comes from a connector that     *)
(* really executed it, a connector executes a call at most once, and       *)
(* "connector not found" and "connector not available" mean that the       *)
(* connector never executes it, not even later.  A "timeout" promises      *)
(* nothing: the connector may have executed the call or may still do so.   *)
(***************************************************************************)
CONSTANTS Calls, None

Refusals == {"notFound", "notAvailable"}

VARIABLES asked,      \* calls that were made
          executed,   \* calls a connector has executed
          reply       \* what each call returned, None while it is open

promise == <<asked, executed, reply>>

Init == asked = {} /\ executed = {} /\ reply = [c \in Calls |-> None]

Ask(c) == /\ c \notin asked
          /\ asked' = asked \cup {c}
          /\ UNCHANGED <<executed, reply>>

Execute(c) == /\ c \in asked \ executed
              /\ reply[c] \notin Refusals
              /\ executed' = executed \cup {c}
              /\ UNCHANGED <<asked, reply>>

Return(c, r) == /\ c \in asked
                /\ reply[c] = None
                /\ \/ r = c /\ c \in executed
                   \/ r \in Refusals /\ c \notin executed
                   \/ r = "timeout"
                /\ reply' = [reply EXCEPT ![c] = r]
                /\ UNCHANGED <<asked, executed>>

Next == \E c \in Calls :
           \/ Ask(c)
           \/ Execute(c)
           \/ \E r \in {c, "timeout"} \cup Refusals : Return(c, r)

Spec == Init /\ [][Next]_promise
=============================================================================
