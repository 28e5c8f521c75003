------------------------------- MODULE MCPlay -------------------------------
(* Small instances of Play: decks of two 1-ofs, drafted from three cards. *)
EXTENDS Play, TLC

MCConns == 1 .. 4
MCBuckets == <<2, 0, 0>>
MCMaxRounds == [m \in Modes |-> IF m = "card" THEN 2 ELSE 1]

MCTarget == [p1 |-> 1, p2 |-> 2]

\* Cards are only compared for equality.
Symmetry == Permutations(Cards)

=============================================================================
