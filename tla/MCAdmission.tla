---------------------------- MODULE MCAdmission ----------------------------
(* Small instances of Admission; slots are only compared for equality. *)
EXTENDS Admission, TLC

Symmetry == Permutations(Conns)

=============================================================================
