------------------------------- MODULE FxRules -------------------------------
(***************************************************************************)
(* The decision layer of the animation of a round (core/fx_rules.c): which *)
(* scene the clients play for the two cards, who is shown as its winner,   *)
(* whether it is a critical one, its sound cue, and when each stage of the *)
(* timeline begins and ends.  Clash and Stages are what apps/gui/fx.c puts *)
(* together from it; the web client uses the same layer.                   *)
(*                                                                         *)
(* Scenes and cues have their names in fx.c and sfx.h in place of numbers; *)
(* a kind or a card is -1 when there is none, a has_ flag is 0 or 1.       *)
(***************************************************************************)
EXTENDS CardRules

NoSeat == -1

\* A mutant: only what took effect is shown.
fx_card_id_effective(eff, declared, cancelled) == eff
\* A cancelled card is shown as declared, an effective one as it took effect.
fx_card_id(eff, declared, cancelled) == IF eff < 0 /\ cancelled THEN declared ELSE eff

fx_kind_of(id) == IF id < 0 THEN -1 ELSE card_kind(id)

Clashes == <<"blitz", "bypass", "block">>        \* won by Offense, Operations, Defense
Mirrors == <<"mirror_off", "mirror_ops", "mirror_def">>

fx_scenario(a, b, cancelled) ==
    LET lone == IF a >= 0 THEN a ELSE b
        better == IF kind_beats(a, b) THEN a ELSE b
    IN  CASE cancelled -> "cancel"
          [] ~cancelled /\ a < 0 /\ b < 0 -> "both_pass"
          [] ~cancelled /\ (a < 0) # (b < 0) -> IF lone = Defense THEN "hold_shield" ELSE "unopposed"
          [] ~cancelled /\ a >= 0 /\ a = b -> Mirrors[a + 1]
          [] OTHER -> Clashes[better + 1]

fx_winner_seat(a, b, cancelled) ==
    CASE cancelled \/ a = b -> NoSeat
      [] ~cancelled /\ a # b /\ (a < 0 \/ b < 0) -> IF a < 0 THEN 1 ELSE 0
      [] OTHER -> IF kind_beats(a, b) THEN 0 ELSE 1

fx_is_crit(sc, dmg_lose, power_win, power_lose, cost_win) ==
    \/ sc = "blitz" /\ dmg_lose >= 8
    \/ sc = "block" /\ power_win - power_lose >= 3
    \/ sc = "bypass" /\ (dmg_lose >= 8 \/ cost_win >= 5)

fx_clash_duration_ms(sc, crit) ==
    CASE sc = "blitz" -> IF crit THEN 1900 ELSE 1500
      [] sc = "block" -> IF crit THEN 2000 ELSE 1700
      [] sc = "bypass" -> IF crit THEN 2200 ELSE 2000
      [] sc = "unopposed" -> 1200
      [] sc = "hold_shield" -> 1000
      [] sc = "both_pass" -> 700
      [] sc = "cancel" -> 1100
      [] OTHER -> 1400

Signatures == <<"lock", "sabotage", "flank", "scan">>     \* of the keywords 1 .. 4
fx_clash_cue(sc, crit, kw) ==
    CASE sc = "blitz" -> IF crit THEN "blitz_crit" ELSE "blitz"
      [] sc = "block" -> IF crit THEN "block_crit" ELSE "block"
      [] sc = "bypass" -> CASE crit -> "bypass_crit"
                            [] ~crit /\ kw \in 1 .. 4 -> Signatures[kw]
                            [] OTHER -> "siphon"
      [] sc = "hold_shield" -> "immune"
      [] sc = "both_pass" -> "hold"
      [] OTHER -> sc

-----------------------------------------------------------------------------
(* The timeline: d is the duration of the clash; h, a, e, s are 1 when the *)
(* stage of the hull, the armor, the energy and credits, the statuses runs.*)

fx_clash0 == 600
fx_clash1(d) == fx_clash0 + d
fx_hull0(d) == fx_clash1(d) + 220
fx_hull1(d, h) == fx_hull0(d) + h * 950
fx_armor0(d, h) == fx_hull1(d, h) + h * 120
fx_armor1(d, h, a) == fx_armor0(d, h) + a * 850
fx_econ0(d, h, a) == fx_armor1(d, h, a) + a * 100
fx_econ1(d, h, a, e) == fx_econ0(d, h, a) + e * 950
fx_stat0(d, h, a, e) == fx_econ1(d, h, a, e) + e * 100
fx_stat1(d, h, a, e, s) == fx_stat0(d, h, a, e) + s * 750
fx_settle0(d, h, a, e, s) == fx_stat1(d, h, a, e, s)
fx_timeline_total_ms(d, h, a, e, s) ==
    LET total == fx_settle0(d, h, a, e, s) + 320 IN IF total < 9000 THEN total ELSE 9000

\* dmg, heal, armor before and after: of the client's own seat, 0, and of the other, 1
fx_has_hull(dmg, heal) == \E i \in {0, 1} : dmg[i] > 0 \/ heal[i] > 0
fx_has_armor(before, after) == \E i \in {0, 1} : after[i] # before[i]
fx_has_econ(energy_delta, vault_delta) == \E i \in {0, 1} : energy_delta[i] # 0 \/ vault_delta[i] # 0
fx_has_stat(new_status, disabled, swapped) == swapped \/ \E i \in {0, 1} : new_status[i] \/ disabled[i]

-----------------------------------------------------------------------------
(* fx_begin: the scene of a round r, which has for seat 0, the client, and *)
(* for seat 1 the card declared, the card that took effect, whether it was *)
(* cancelled and the damage taken.                                         *)

CardShown(r, i) == fx_card_id(r.eff[i], r.card[i], r.cancelled[i])

Clash(r) ==
    LET kind(i) == fx_kind_of(CardShown(r, i))
        cancelled == r.cancelled[0] \/ r.cancelled[1]
        sc == fx_scenario(kind(0), kind(1), cancelled)
        win == fx_winner_seat(kind(0), kind(1), cancelled)
        lose == IF win = NoSeat THEN NoSeat ELSE 1 - win
        crit == /\ win # NoSeat
                /\ fx_is_crit(sc, r.dmg[lose], card_power(CardShown(r, win)),
                              card_power(CardShown(r, lose)), card_cost(CardShown(r, win)))
        kw == IF sc = "bypass" THEN card_keyword(CardShown(r, win)) ELSE 0
    IN  [sc |-> sc, win |-> win, lose |-> lose, crit |-> crit,
         cue |-> fx_clash_cue(sc, crit, kw), duration |-> fx_clash_duration_ms(sc, crit)]

\* begin_stages: each stage as the interval in which it runs
Stages(d, h, a, e, s) ==
    <<<<fx_clash0, fx_clash1(d)>>,
      <<fx_hull0(d), fx_hull1(d, h)>>,
      <<fx_armor0(d, h), fx_armor1(d, h, a)>>,
      <<fx_econ0(d, h, a), fx_econ1(d, h, a, e)>>,
      <<fx_stat0(d, h, a, e), fx_stat1(d, h, a, e, s)>>,
      <<fx_settle0(d, h, a, e, s), fx_timeline_total_ms(d, h, a, e, s)>>>>
=============================================================================
