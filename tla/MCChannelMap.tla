---------------------------- MODULE MCChannelMap ----------------------------
(***************************************************************************)
(* ChannelMapSpec on more ids than channels, so that exhaustion happens.   *)
(***************************************************************************)
EXTENDS ChannelMapSpec

CONSTANTS p1, p2, p3, p4

MCIds == {p1, p2, p3, p4}
=============================================================================
