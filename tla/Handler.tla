------------------------------ MODULE Handler ------------------------------
(***************************************************************************)
(* What the handlers of the connectors share: Serve gives a handler one    *)
(* request after the other (jsonrpc.go:130-151), the handler answers with  *)
(* a value or an error, or panics.  `up` says that the handler was         *)
(* constructed, `asked` is the request being answered, `reply` its answer. *)
(* A number that is -1 stands for a parameter that is missing, is no       *)
(* number or is no integer.                                                *)
(***************************************************************************)
EXTENDS Integers, Sequences, FiniteSets

VARIABLES up, asked, reply

handlerVars == <<up, asked, reply>>

Answered(kind, value) == [kind |-> kind, value |-> value]
Result(value) == Answered("result", value)
Error == Answered("error", <<>>)
Panic == Answered("panic", <<>>)

Idle == [op |-> "none"]

(* The handler is not constructed yet.                                     *)
HandlerInit ==
    /\ up = FALSE
    /\ asked = Idle
    /\ reply = Error

(* New returns a handler, or an error that ends the process.               *)
Open(configured, reached) ==
    /\ ~up
    /\ up' = (configured /\ reached)
    /\ asked' = Idle
    /\ UNCHANGED reply

(* A call is answered: request and answer become visible together.         *)
Call(request, answer) ==
    /\ up
    /\ asked' = request
    /\ reply' = answer
    /\ UNCHANGED up

(* The methods a handler does not know.                                    *)
UnknownMethod == Call([op |-> "unknown"], Error)
=============================================================================
