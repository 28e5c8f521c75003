-------------------------------- MODULE Duel --------------------------------
(***************************************************************************)
(* What the server's handlers and the clients rely on in a match, whatever *)
(* the cards do: the slots a seat is told it may play when a round begins  *)
(* (ROUND_START) are the ones dw_match_lock accepts for as long as that    *)
(* round lasts; a lock is final; a round is resolved when both have locked *)
(* and not before; the last round is followed by none, and a result stays. *)
(* Play models matches like this; MatchRules is shown to implement it.     *)
(***************************************************************************)
EXTENDS Integers

CONSTANTS Slots, MaxRounds, Open, Pass

VARIABLES
    round,
    legal,      \* the slots each seat may play in this round
    lock,       \* what each seat locked in this round: Open, Pass or a slot
    stage,      \* "idle", "play" or "over"
    result

vars == <<round, legal, lock, stage, result>>

Seats == {0, 1}
Unlocked == [s \in Seats |-> Open]
Closed == [s \in Seats |-> {}]
Results ==
    {<<"win", "loss">>, <<"loss", "win">>, <<"draw", "draw">>}

Init ==
    /\ round = 0
    /\ legal = Closed
    /\ lock = Unlocked
    /\ stage = "idle"
    /\ result = [s \in Seats |-> "none"]

\* dw_match_begin_round and send_round_start
BeginRound ==
    /\ stage = "idle"
    /\ round < MaxRounds
    /\ round' = round + 1
    /\ legal' \in [Seats -> SUBSET Slots]
    /\ lock' = Unlocked
    /\ stage' = "play"
    /\ UNCHANGED result

\* A PLAY that is acknowledged, or a deadline
Lock(s, slot) ==
    /\ stage = "play"
    /\ lock[s] = Open
    /\ slot \in legal[s] \cup {Pass}
    /\ lock' = [lock EXCEPT ![s] = slot]
    /\ UNCHANGED <<round, legal, stage, result>>

EndsWith(r) == stage' = "over" /\ result' = [s \in Seats |-> r[s + 1]]
GoesOn == round < MaxRounds /\ stage' = "idle" /\ UNCHANGED result

\* resolve_round
Resolve ==
    /\ stage = "play"
    /\ \A s \in Seats : lock[s] # Open
    /\ GoesOn \/ \E r \in Results : EndsWith(r)
    /\ legal' = Closed /\ lock' = Unlocked
    /\ UNCHANGED round

\* leave_match_or_queue
Forfeit(s) ==
    /\ stage = "play"
    /\ EndsWith(IF s = 0 THEN <<"loss", "win">> ELSE <<"win", "loss">>)
    /\ legal' = Closed /\ lock' = Unlocked
    /\ UNCHANGED round

Next ==
    \/ BeginRound
    \/ \E s \in Seats, slot \in Slots \cup {Pass} : Lock(s, slot)
    \/ Resolve
    \/ \E s \in Seats : Forfeit(s)

Spec == Init /\ [][Next]_vars
=============================================================================
