-------------------------- MODULE MCTerminalWindow --------------------------
(***************************************************************************)
(* Two panes and two channels: the second pane has the channel that the    *)
(* closed first one gave back, or one of its own.                          *)
(***************************************************************************)
EXTENDS TerminalWindow

MCIds == 1 .. 2
=============================================================================
