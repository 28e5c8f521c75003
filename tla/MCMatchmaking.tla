---------------------------- MODULE MCMatchmaking ----------------------------
(* Matchmaking on a few connections. *)
EXTENDS Matchmaking, TLC

\* slots and connections are interchangeable: nothing compares them by index
Symmetry == Permutations(Conns) \cup Permutations(Slots)

(* Bounds on who comes together.  The queues of the modes share nothing but   *)
(* the match slots, so four connections meet in one queue, the card queue,    *)
(* where duels are; three, without duel tokens, in the other two; and the     *)
(* ratings, which only pace constructed bots, differ only among those.        *)
Used == {c \in Conns : state[c] # "FREE"}
Known == {c \in Used : state[c] # "CONNECTED"}
Crowd ==
    \/ \A c \in Known : mode[c] = "card" /\ rating[c] = DefaultRating
    \/ /\ Cardinality(Used) <= 3
       /\ \A c \in Known : token[c] = NoToken
       /\ \/ \A c \in Known : mode[c] # "card" /\ rating[c] = DefaultRating
          \/ \A c \in Known : mode[c] = "constructed" /\ kind[c] = "bot"
=============================================================================
