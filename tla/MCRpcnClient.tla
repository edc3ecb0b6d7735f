---------------------------- MODULE MCRpcnClient ----------------------------
(***************************************************************************)
(* Instances of RpcnClient for TLC.  MCRpcnClient.cfg: one peer, so that a *)
(* login, a signaling request and a leave-taking can be answered out of    *)
(* order, and one notification.  MCRpcnClientEvents.cfg: no peer, and two  *)
(* notifications beside two events of PSN.                                 *)
(***************************************************************************)
EXTENDS RpcnClient

CONSTANT p1

MCPeers == {p1}

=============================================================================
