------------------------------ MODULE MCPeers ------------------------------
(***************************************************************************)
(* Instances of Peers for TLC.                                             *)
(***************************************************************************)
EXTENDS Peers

CONSTANT t1

TwoNodes == {1, 2}
OneTx == {t1}
NoTxs == {}
=============================================================================
