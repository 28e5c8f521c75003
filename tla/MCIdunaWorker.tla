---------------------------- MODULE MCIdunaWorker ----------------------------
(* One connection that asks for either of two tokens, two reports, queues of two. *)
EXTENDS IdunaWorker, TLC

\* Match ids are only compared for equality.
Symmetry == Permutations(Matches)

=============================================================================
