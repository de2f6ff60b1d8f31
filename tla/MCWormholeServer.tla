-------------------------- MODULE MCWormholeServer --------------------------
(***************************************************************************)
(* WormholeServer with at most MaxPtys panes, and the symmetry of its      *)
(* browser windows.                                                        *)
(***************************************************************************)
EXTENDS WormholeServer

CONSTANTS c1, c2

MCIds == 1 .. MaxPtys
MCNone == {}
MCOneClient == {c1}
MCTwoClients == {c1, c2}
=============================================================================
