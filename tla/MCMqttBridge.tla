---------------------------- MODULE MCMqttBridge ----------------------------
(* Small instances of MqttBridge for TLC.                                  *)
EXTENDS MqttBridge, TLC
=============================================================================
