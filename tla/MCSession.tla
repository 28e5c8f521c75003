----------------------------- MODULE MCSession -----------------------------
(* One session of either mode, two picks to a draft.                          *)
EXTENDS Session

MCModes == {"card", "draft"}

=============================================================================
