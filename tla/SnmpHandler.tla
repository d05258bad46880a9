---------------------------- MODULE SnmpHandler ----------------------------
(***************************************************************************)
(* The SNMP connector (src/internal/app/snmp/handler/handler.go) with the  *)
(* agent at the other end of gosnmp.  Oids are numbers in the agent's      *)
(* order.  A value is a number: `Limit` and above do not fit into 32 bits, *)
(* Empty is the empty string, NoText a value that is not given as text.    *)
(***************************************************************************)
EXTENDS Handler, SequencesExt

CONSTANTS
    MaxOid,     \* the oids are 1..MaxOid
    ReadOnly,   \* those the agent refuses to set
    MaxOids,    \* the oids a request may hold
    Limit       \* 2^32

VARIABLES
    agent,      \* [1..MaxOid -> values]
    traps       \* the last trap the agent's manager got

snmpVars == <<agent, traps>>

ASSUME AgentAssumption == MaxOid \in Nat /\ Limit \in Nat \ {0}

Empty == -1
NoText == -2
NoSuch == -3    \* noSuchObject, endOfMibView
Oids == 1..MaxOid
Given == (0..Limit + 1) \cup {NoText}

BerTypes == {"string", "integer", "gauge", "ip", "oid", "ticks", "counter32",
             "counter64", "other"}

SnmpSame == UNCHANGED snmpVars
SnmpRefuse(op) == Call([op |-> op], Error) /\ SnmpSame

SnmpInit ==
    /\ agent = [o \in Oids |-> 0]
    /\ traps = <<>>

(* New checks address, community, version, mode and protocols, and opens   *)
(* the socket; any of them may be refused.                                 *)
SnmpOpen == (\E settings, socket \in BOOLEAN : Open(settings, socket)) /\ SnmpSame

\* -------------------------------------------------------------------- reads
Value(o) == IF o \in Oids THEN agent[o] ELSE NoSuch
Entry(o) == [oid |-> o, value |-> Value(o)]
ReadOps == {"get", "get-next", "get-bulk", "walk"}

(* The answer lists entries of the agent: those that were asked for, or    *)
(* those that follow them.  Parameters that do not parse, too many oids,   *)
(* an agent that does not answer: an error.                                *)
SnmpRead ==
    \/ \E op \in ReadOps : SnmpRefuse(op)
    \/ /\ \E op \in ReadOps, oids \in SeqOf(0..MaxOid, MaxOids) :
             Call([op |-> op], Result([i \in DOMAIN oids |-> Entry(oids[i])]))
       /\ SnmpSame

\* ----------------------------------------------------------------- snmp-set
(* What set turns the text into; NoSuch when it does not parse.  Gauge32   *)
(* is parsed with 64 bits.                                                 *)
Parsed(type, value) ==
    CASE type = "string" -> IF value = NoText THEN Empty ELSE value
      [] type \in {"integer", "gauge", "counter32", "counter64"} ->
            IF value = NoText THEN NoSuch ELSE value
      [] type = "ticks" -> IF value \in 0..Limit - 1 THEN value ELSE NoSuch
      [] OTHER -> NoSuch

(* mutant of OnWire: the gauge is cut to the bits a signed integer has *)
OnWireSigned(type, value) ==
    CASE type = "string" -> value
      [] type = "integer" -> IF value < Limit \div 2 THEN value ELSE NoSuch
      [] type = "gauge" -> value % (Limit \div 2)
      [] OTHER -> NoSuch

(* What the client puts on the wire: integers have 32 bits with sign, the  *)
(* gauge keeps its lower 32 bits; no other type of number may be set.      *)
OnWire(type, value) ==
    CASE type = "string" -> value
      [] type = "integer" -> IF value < Limit \div 2 THEN value ELSE NoSuch
      [] type = "gauge" -> value % Limit
      [] OTHER -> NoSuch

(* An oid as value and an address are refused by the client in every form  *)
(* the handler gives them; the types without a case are refused here.      *)
Settable(type, value) ==
    /\ type \in BerTypes
    /\ Parsed(type, value) # NoSuch
    /\ OnWire(type, Parsed(type, value)) # NoSuch

(* The agent's refusal is a field of the answer that nobody reads: the     *)
(* answer repeats the request.  The client repeats a request whose answer  *)
(* is lost, which the agent then does again.                               *)
Set(oid, type, value) ==
    /\ Settable(type, value)
    /\ LET wire == OnWire(type, Parsed(type, value))
           asks == [op |-> "set", oid |-> oid, type |-> type, value |-> value]
       IN /\ agent' = IF oid \in ReadOnly THEN agent ELSE [agent EXCEPT ![oid] = wire]
          /\ \/ Call(asks, Result(<<[oid |-> oid, value |-> wire]>>))
             \/ Call([op |-> "set"], Error)
    /\ UNCHANGED traps

(* An address of fewer than four numbers makes IPtoHEX panic.              *)
SnmpSet ==
    \/ SnmpRefuse("set")
    \/ Call([op |-> "set"], Panic) /\ SnmpSame
    \/ \E oid \in Oids, type \in BerTypes, value \in Given : Set(oid, type, value)

\* ---------------------------------------------------------------- send-trap
(* parsePDU takes the oid from each variable, type and value from the      *)
(* request.  A number from JSON is no value the client knows, so only text *)
(* gets through.                                                           *)
ParsePdu(variables, value) == [i \in DOMAIN variables |-> [oid |-> variables[i].oid,
                                                           value |-> value]]

SendTrap(variables, value) ==
    /\ value # NoText /\ variables # <<>>
    /\ traps' = ParsePdu(variables, value)
    /\ Call([op |-> "send-trap", variables |-> variables, value |-> value], Result(<<>>))
    /\ UNCHANGED agent

SnmpTrap ==
    \/ SnmpRefuse("send-trap")
    \/ \E variables \in SeqOf([oid : Oids, value : {0, 1}], 2), value \in {NoText, 0, 1} :
          SendTrap(variables, value)

SnmpClose == up /\ up' = FALSE /\ UNCHANGED <<asked, reply>> /\ SnmpSame

SnmpNext ==
    \/ SnmpOpen
    \/ SnmpRead
    \/ SnmpSet
    \/ SnmpTrap
    \/ SnmpClose
    \/ UnknownMethod /\ SnmpSame

\* --------------------------------------------------------------- properties
(* An answered snmp-set has set the value it was given, unless the agent   *)
(* refused (encodeSnmpPacket, handler.go:229-236, does not look), a gauge  *)
(* did not fit into 32 bits (461), or a string was given without quotes    *)
(* (435), which sets the empty string.                                     *)
SnmpSetIsDone ==
    [][(reply'.kind = "result" /\ asked'.op = "set") =>
          ((agent'[asked'.oid] = asked'.value) <=>
             \/ agent[asked'.oid] = asked'.value /\ asked'.oid \in ReadOnly
             \/ /\ asked'.oid \notin ReadOnly
                /\ asked'.type = "gauge" => asked'.value < Limit
                /\ asked'.type = "string" => asked'.value # NoText)]_<<handlerVars, snmpVars>>

(* A trap carries what it was asked to carry when all its variables have   *)
(* the one value of the request, and only then (handler.go:369-378).       *)
TrapIsAsked ==
    (reply.kind = "result" /\ asked.op = "send-trap") =>
        ((traps = asked.variables) <=>
            \A i \in DOMAIN asked.variables : asked.variables[i].value = asked.value)
=============================================================================
