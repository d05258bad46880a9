---------------------------- MODULE MCBleClients ----------------------------
(* Small instances of BleClients for TLC.                                  *)
EXTENDS BleClients, TLC

Symmetry == Permutations(Devices)
=============================================================================
