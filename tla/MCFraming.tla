----------------------------- MODULE MCFraming -----------------------------
(* A small instance of Framing: bytes 0 to 2, a type without a payload and one *)
(* with none or one byte of it; a receive buffer for just one frame.          *)
EXTENDS Framing, TLC

MCSizes == 1 :> {0} @@ 2 :> {0, 1}
MCDirs == {"up", "down", "web"}

=============================================================================
