-------------------------- MODULE MCConnectorPeer ---------------------------
(* Small instances of ConnectorPeer for TLC.                               *)
EXTENDS ConnectorPeer

CONSTANT s1

MCBig == {<<"answer", 1>>, <<"note", s1, 2>>}
MCNoJson == {<<"answer", 3>>}
=============================================================================
