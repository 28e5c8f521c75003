------------------------------- MODULE MCGui -------------------------------
(* A player who begins with or without a draft run and may begin another one. *)
EXTENDS Gui
=============================================================================
