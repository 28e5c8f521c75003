----------------------------- MODULE RoundShown -----------------------------
(***************************************************************************)
(* What the players see of a round: the ROUND_RESULT that resolve_match in *)
(* apps/server/main.c sends each seat, as the client at that seat hands it *)
(* to fx_begin, over the match of MatchRules.                              *)
(***************************************************************************)
EXTENDS MatchRules, FxRules

\* A value of each seat, as the client of seat s numbers the seats: itself is 0
SeenFrom(s, f) == IF s = 0 THEN f ELSE Mirror(f)

CancelledIn(paid, subs) == Both(Cancelled(paid, subs, 0), Cancelled(paid, subs, 1))

\* What ROUND_RESULT carries for seat s of a round that resolved to r
RoundResult(s, r, cancelled) ==
    [card |-> SeenFrom(s, LastCards),
     eff |-> SeenFrom(s, r.eff),
     cancelled |-> SeenFrom(s, cancelled),
     dmg |-> SeenFrom(s, Both(r.meters[0].dmg_to, r.meters[1].dmg_to)),
     heal |-> SeenFrom(s, Both(r.meters[0].heal, r.meters[1].heal))]

-----------------------------------------------------------------------------
(***************************************************************************)
(* Properties.                                                             *)
(***************************************************************************)

Countered(eff, s) ==
    (\A t \in Seats : eff[t] >= 0) /\ kind_beats(card_kind(eff[1 - s]), card_kind(eff[s]))

\* A seat is shown beaten in a clash exactly when its card was countered, and whoever is
\* shown beaten dealt nothing by the triangle.
BeatenFits(shown, eff) ==
    /\ shown.sc # "cancel" => \A s \in Seats :
           (shown.lose = s /\ shown.sc \in {"blitz", "block", "bypass"}) <=> Countered(eff, s)
    /\ shown.lose # NoSeat => damage_dealt(eff[shown.lose], eff[shown.win]) = 0

\* Only a pass shows no card, and a card that copied a pass.
CardsFit(view) ==
    \A s \in Seats : LastCards[s] >= 0 /\ CardShown(view, s) = -1 =>
        LastCards[1 - s] = -1 /\ HasChannel(card_substitute(LastCards[s], meters[s].roll), 8)

HullFits(view, after) ==
    (\E s \in Seats : after[s].hull # meters[s].hull_start) => fx_has_hull(view.dmg, view.heal)

\* The two clients tell the story of the same round, and it is the one that match.c
\* resolved: the same scene and cue on both screens, with the winner exchanged; the beaten
\* seat is the countered one, a card that was played is in the arena, and a hull
\* that changes has its stage.
ShownAsResolved ==
    phase = "play" /\ (\A s \in Seats : lock_slot[s] # Open) =>
        \A r \in {Resolved}, c \in {CancelledIn(Paid(meters, LastCards), Substituted(meters, LastCards))} :
        \A view \in {RoundResult(0, r, c)}, other \in {RoundResult(1, r, c)} :
        \A shown \in {Clash(view)} :
            /\ Clash(other) = [shown EXCEPT !.win = shown.lose, !.lose = shown.win]
            /\ BeatenFits(shown, r.eff)
            /\ CardsFit(view)
            /\ HullFits(view, r.meters)
=============================================================================
