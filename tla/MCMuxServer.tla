---------------------------- MODULE MCMuxServer ----------------------------
(***************************************************************************)
(* MuxServer with two connections, whose windows are of different shapes.  *)
(***************************************************************************)
EXTENDS MuxServer

CONSTANTS c1, c2

MCIds == 1 .. MaxSessions
MCConns == {c1, c2}
MCSizes == {[cols |-> 1, rows |-> 2], [cols |-> 2, rows |-> 1]}
MCGenerations == <<2, 1>>
MCPushed == <<3, 0>>
MCSymmetry == Permutations(Conns)
=============================================================================
