--------------------------- MODULE MCSingleServer ---------------------------
(***************************************************************************)
(* SingleServer with two connections, whose windows are of different       *)
(* shapes, and two sessions.                                               *)
(***************************************************************************)
EXTENDS SingleServer

CONSTANTS c1, c2, s1, s2

MCConns == {c1, c2}
MCSessionIds == {s1, s2}
MCSizes == {[cols |-> 1, rows |-> 2], [cols |-> 2, rows |-> 1]}
MCSymmetry == Permutations(Conns) \cup Permutations(SessionIds)
=============================================================================
