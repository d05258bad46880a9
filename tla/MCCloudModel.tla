---------------------------- MODULE MCCloudModel ----------------------------
(* Small instances of CloudModel for TLC.                                  *)
EXTENDS CloudModel
=============================================================================
