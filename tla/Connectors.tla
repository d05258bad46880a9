----------------------------- MODULE Connectors ----------------------------
(***************************************************************************)
(* A connector process with one of the handlers that only answer requests: *)
(* Modbus, SNMP or OPC-UA (src/cmd/*-connector).                           *)
(***************************************************************************)
EXTENDS ModbusHandler, SnmpHandler, OpcuaHandler

VARIABLE program    \* which of the connectors this process is

vars == <<handlerVars, modbusVars, snmpVars, opcuaVars, program>>

Init ==
    /\ program \in {"modbus", "snmp", "opcua"}
    /\ HandlerInit
    /\ ModbusInit
    /\ SnmpInit
    /\ OpcuaInit

ModbusStep ==
    /\ program = "modbus" /\ ModbusNext
    /\ UNCHANGED <<snmpVars, opcuaVars, program>>

SnmpStep ==
    /\ program = "snmp" /\ SnmpNext
    /\ UNCHANGED <<modbusVars, opcuaVars, program>>

OpcuaStep ==
    /\ program = "opcua" /\ OpcuaNext
    /\ UNCHANGED <<modbusVars, snmpVars, program>>

Next == ModbusStep \/ SnmpStep \/ OpcuaStep

Spec == Init /\ [][Next]_vars

(* What the handlers answer is what was asked for: the cells a Modbus read *)
(* names, the variables of an SNMP trap, the nodes below an OPC-UA node.   *)
AnswersAreExact == ModbusReadIsExact /\ TrapIsAsked /\ BrowseIsExact

(* An answered write has done what was asked, to nothing else, in each of  *)
(* the handlers, but for the exceptions their properties name.             *)
WritesAreExact == ModbusWriteIsExact /\ SnmpSetIsDone /\ OpcuaWriteIsDone
=============================================================================
