------------------------------ MODULE CardRules ------------------------------
(***************************************************************************)
(* The rules catalog of core/card_rules.c: 105 cards with their kind,      *)
(* keyword, cost, power and up to two effect words, and the arithmetic     *)
(* that core/match.c applies to them.  Cards are the ids 0 .. 104, -1 is a *)
(* pass.  The chains of ifs of the generated source are tables here: entry *)
(* 1 of a table is the first id its function tests for.                    *)
(***************************************************************************)
EXTENDS Integers, Sequences

num_cards == 105
start_hull == 20
start_energy == 2
start_vault == 3
EnergyCap == 6
energy_cap(e) == IF e > EnergyCap THEN EnergyCap ELSE e

CardIds == 0 .. num_cards - 1

-----------------------------------------------------------------------------
(* Kinds and keywords, packed 16 base-3 and 10 base-6 digits to a word.    *)

Offense == 0
Operations == 1
Defense == 2

pow3(n) == 3 ^ n
kind_chunk == <<14545359, 30373336, 38256857, 43046683, 21525884, 202, 0>>
card_kind(id) ==
    IF id < 9 THEN id \div 3
              ELSE (kind_chunk[id \div 16 + 1] \div pow3(id % 16)) % 3

pow6(n) == 6 ^ n
kw_chunk == <<27864, 47231430, 50583558, 1215648, 3592514, 29,
              1399680, 35607998, 1179, 0, 0>>
card_keyword(id) ==
    IF id < 0 THEN 0 ELSE (kw_chunk[id \div 10 + 1] \div pow6(id % 10)) % 6

\* Offense > Operations > Defense > Offense
kind_beats(a, b) == b = IF a = Defense THEN Offense ELSE a + 1

-----------------------------------------------------------------------------
(* Costs and powers.                                                       *)

base_tier(id) == id % 3      \* Spark, Bolt, Railgun and their like

cost_lo  == <<2, 1, 4, 3, 2, 2, 3, 2, 5, 2, 3, 2, 3, 1, 1, 1>>    \* 9 ..
cost_mid == <<3, 4, 3, 2, 2, 1, 1, 2, 4, 2, 1, 5, 3, 1, 2, 3>>    \* 25 ..
cost_hi  == <<1, 2, 2, 2, 1, 2, 2, 2, 3, 6, 4, 2, 3, 1, 2, 2>>    \* 41 ..
cost_top == <<2, 3, 3, 3, 3, 1, 2, 4, 3, 5, 2, 2, 4, 4, 4, 2>>    \* 57 ..
cost_n1  == <<1, 3, 4, 2, 5, 2, 3, 1, 2, 3, 2, 3, 3, 2, 4, 3>>    \* 73 ..
cost_n2  == <<1, 2, 2, 2, 6, 2, 3, 1, 1, 3, 4, 5, 3, 1, 3, 2>>    \* 89 ..

power_lo  == <<4, 8, 8, 3, 5, 3, 2, 2, 14, 1, 3, 12, 3, 0, 2, 9>>
power_mid == <<5, 6, 3, 6, 3, 6, 2, 4, 3, 0, 0, 0, 0, 0, 0, 2>>
power_hi  == <<3, 4, 0, 2, 0, 1, 2, 0, 0, 0, 0, 4, 3, 0, 2, 2>>
power_top == <<3, 0, 4, 0, 3, 0, 5, 4, 0, 0, 3, 1, 0, 2, 0, 1>>
power_n1  == <<3, 6, 7, 4, 9, 3, 5, 1, 1, 2, 2, 4, 4, 2, 8, 8>>
power_n2  == <<6, 3, 4, 3, 14, 3, 5, 3, 3, 8, 8, 10, 9, 1, 6, 5>>

\* The entry for id in the six tables that split the ids 9 .. 104.
Lookup(id, lo, mid, hi, top, n1, n2) ==
    CASE id < 25 -> lo[id - 8]
      [] id \in 25 .. 40 -> mid[id - 24]
      [] id \in 41 .. 56 -> hi[id - 40]
      [] id \in 57 .. 72 -> top[id - 56]
      [] id \in 73 .. 88 -> n1[id - 72]
      [] OTHER -> n2[id - 88]

card_cost(id) ==
    CASE id < 0 -> 0
      [] id \in 0 .. 8 -> <<1, 2, 4>>[base_tier(id) + 1]
      [] OTHER -> Lookup(id, cost_lo, cost_mid, cost_hi, cost_top, cost_n1, cost_n2)

card_power(id) ==
    CASE id < 0 -> 0
      [] id \in 0 .. 8 -> <<3, 6, 10>>[base_tier(id) + 1]
      [] OTHER -> Lookup(id, power_lo, power_mid, power_hi, power_top, power_n1, power_n2)

card_credit(id) == CASE id \in {13, 30, 59} -> 2 [] id \in {51, 100} -> 3 [] OTHER -> 0

-----------------------------------------------------------------------------
(* Effect words CCNNPPMAA: channel, condition, its parameter, mode, amount.*)

fx(ch, nn, pp, m, a) == ch * 10000000 + nn * 100000 + pp * 1000 + m * 100 + a
fx_ch(x) == x \div 10000000
fx_nn(x) == x \div 100000 - (x \div 10000000) * 100
fx_pp(x) == x \div 1000 - (x \div 100000) * 100
fx_m(x)  == x \div 100 - (x \div 1000) * 10
fx_aa(x) == x - (x \div 100) * 100

base_fx == <<0, 0, 0, fx(1, 6, 2, 0, 1), fx(1, 6, 2, 0, 2), fx(1, 6, 2, 0, 3), 0, 0, 0>>
fxa_lo ==
    <<fx(23, 1, 0, 0, 1), fx(21, 0, 0, 0, 4), fx(3, 0, 0, 0, 4), fx(1, 1, 0, 3, 1),
      fx(22, 17, 3, 0, 6), fx(1, 6, 1, 0, 3), fx(32, 1, 0, 0, 35), fx(1, 9, 10, 0, 8),
      fx(21, 0, 0, 0, 4), fx(1, 0, 0, 1, 1), fx(1, 14, 1, 0, 8), fx(21, 0, 0, 0, 6),
      fx(9, 0, 0, 0, 1), fx(1, 18, 50, 0, 9), fx(1, 5, 0, 0, 4), fx(21, 2, 0, 0, 5)>>
fxa_mid ==
    <<fx(2, 0, 0, 0, 1), fx(1, 9, 8, 0, 8), fx(1, 8, 6, 0, 11), fx(1, 0, 0, 0, 2),
      fx(24, 1, 0, 0, 1), 0, fx(23, 10, 3, 0, 1), fx(6, 2, 0, 6, 5),
      fx(28, 2, 0, 6, 5), 0, fx(23, 0, 0, 0, 3), fx(7, 0, 0, 0, 1),
      fx(22, 4, 0, 2, 2), fx(23, 15, 0, 0, 3), fx(33, 0, 0, 0, 36), fx(32, 0, 0, 0, 21)>>
fxa_hi ==
    <<fx(23, 0, 0, 0, 1), fx(20, 0, 0, 0, 2), fx(23, 0, 0, 0, 2), fx(29, 0, 0, 0, 2),
      fx(23, 0, 0, 0, 4), fx(31, 0, 0, 0, 3), fx(35, 0, 0, 0, 3), fx(34, 0, 0, 0, 1),
      fx(37, 0, 0, 0, 1), fx(7, 0, 0, 0, 1), fx(36, 0, 0, 0, 1), fx(20, 2, 0, 5, 3),
      fx(4, 8, 6, 0, 1), fx(23, 0, 0, 0, 1), fx(20, 8, 8, 0, 4), fx(28, 2, 0, 0, 3)>>
fxa_top ==
    <<fx(23, 6, 0, 0, 2), fx(4, 0, 0, 0, 1), fx(5, 0, 0, 0, 1), fx(4, 0, 0, 0, 1),
      fx(28, 0, 0, 0, 4), fx(28, 0, 0, 0, 2), fx(28, 0, 0, 0, 2), fx(6, 0, 0, 6, 10),
      fx(20, 0, 0, 0, 6), fx(20, 0, 0, 0, 8), fx(24, 7, 3, 0, 2), fx(41, 0, 0, 0, 4),
      fx(39, 0, 0, 0, 1), fx(34, 0, 0, 0, 2), fx(40, 0, 0, 0, 1), fx(29, 0, 0, 0, 2)>>
fxa_n1 ==
    <<fx(2, 0, 0, 0, 1), fx(1, 6, 2, 0, 4), fx(2, 0, 0, 0, 1), fx(1, 7, 3, 0, 3),
      fx(2, 0, 0, 0, 1), fx(1, 5, 0, 0, 5), fx(3, 0, 0, 0, 4), fx(1, 6, 2, 0, 6),
      fx(1, 4, 0, 2, 2), fx(32, 1, 0, 0, 50), fx(24, 1, 0, 0, 2), fx(6, 0, 0, 6, 3),
      fx(1, 0, 0, 4, 1), fx(22, 1, 0, 0, 3), fx(22, 1, 0, 0, 4), fx(21, 0, 0, 0, 2)>>
fxa_n2 ==
    <<fx(21, 0, 0, 0, 3), fx(1, 4, 0, 0, 3), fx(29, 1, 0, 0, 1), fx(1, 11, 4, 0, 3),
      fx(22, 1, 0, 0, 6), fx(1, 18, 40, 0, 7), fx(1, 0, 0, 9, 1), fx(1, 10, 3, 0, 4),
      fx(1, 17, 2, 0, 4), fx(23, 0, 0, 0, 1), fx(1, 6, 1, 0, 4), fx(1, 1, 0, 0, 8),
      fx(21, 2, 0, 0, 3), fx(1, 18, 50, 0, 5), fx(1, 5, 0, 0, 3), fx(21, 0, 0, 0, 1)>>

fxb_lo(id) == CASE id = 21 -> fx(31, 0, 0, 0, 2) [] id = 22 -> fx(21, 21, 50, 0, 3) [] OTHER -> 0
fxb_mid(id) == CASE id = 35 -> fx(21, 2, 0, 0, 5) [] id = 36 -> fx(8, 0, 0, 0, 1) [] OTHER -> 0
fxb_hi(id) ==
    CASE id = 45 -> fx(30, 0, 0, 0, 4) [] id = 49 -> fx(29, 0, 0, 0, 2)
      [] id = 50 -> fx(24, 0, 0, 0, 6) [] id = 54 -> fx(21, 16, 6, 0, 4) [] OTHER -> 0
fxb_top(id) ==
    CASE id = 57 -> fx(29, 6, 0, 0, 1) [] id = 58 -> fx(26, 0, 0, 0, 2)
      [] id = 60 -> fx(26, 0, 0, 0, 1) [] id = 64 -> fx(42, 0, 0, 0, 1)
      [] id = 66 -> fx(43, 0, 0, 0, 1) [] id = 72 -> fx(31, 0, 0, 0, 2) [] OTHER -> 0
fxb_n1(id) ==
    CASE id = 75 -> fx(3, 0, 0, 0, 3) [] id = 77 -> fx(1, 9, 10, 0, 5)
      [] id = 78 -> fx(1, 6, 2, 0, 2) [] id = 83 -> fx(23, 1, 0, 0, 2)
      [] id = 84 -> fx(28, 0, 0, 0, 3) [] OTHER -> 0
fxb_n2(id) == IF id = 94 THEN fx(1, 21, 40, 0, 1) ELSE 0

card_fx_a(id) ==
    IF id < 9 THEN base_fx[id + 1]
              ELSE Lookup(id, fxa_lo, fxa_mid, fxa_hi, fxa_top, fxa_n1, fxa_n2)
card_fx_b(id) ==
    CASE id < 21 -> 0
      [] id \in 21 .. 24 -> fxb_lo(id)
      [] id \in 25 .. 40 -> fxb_mid(id)
      [] id \in 41 .. 56 -> fxb_hi(id)
      [] id \in 57 .. 72 -> fxb_top(id)
      [] id \in 73 .. 88 -> fxb_n1(id)
      [] OTHER -> fxb_n2(id)

(***************************************************************************)
(* The amount of an effect in a context c: damage dealt and taken so far,  *)
(* the kinds mk and ok (-1: no card), the opponent's cost oc, the hulls mh *)
(* and oh, the energies el and oe, the credits mv and ov, round and roll.  *)
(***************************************************************************)
fx_cond_ok(x, c) ==
    LET nn == fx_nn(x)
        pp == fx_pp(x)
    IN CASE nn = 0 -> TRUE
         [] nn = 1 -> c.dealt > 0 /\ IF c.ok >= 0 THEN kind_beats(c.mk, c.ok) ELSE c.mk # Defense
         [] nn = 2 -> c.taken > 0
         [] nn = 3 -> c.ok >= 0 /\ kind_beats(c.ok, c.mk)
         [] nn = 4 -> c.ok >= 0
         [] nn = 5 -> c.ok < 0
         [] nn = 6 -> c.ok = pp
         [] nn = 7 -> c.ok >= 0 /\ c.oc >= pp
         [] nn = 8 -> c.mh <= pp
         [] nn = 9 -> c.oh <= pp
         [] nn = 10 -> c.el >= pp
         [] nn = 11 -> c.oe >= pp
         [] nn = 12 -> c.mv >= pp
         [] nn = 13 -> c.mv < pp
         [] nn = 14 -> c.ov < pp
         [] nn = 15 -> c.dealt <= 0 /\ c.taken <= 0
         [] nn = 16 -> c.taken >= pp
         [] nn = 17 -> pp > 0 /\ c.rnd % pp = 0
         [] nn = 18 -> c.roll < pp
         [] nn = 19 -> c.dealt >= pp
         [] nn = 20 -> c.ok # pp
         [] OTHER -> c.roll >= pp

fx_scale(x, c) ==
    LET aa == fx_aa(x)
        m  == fx_m(x)
    IN CASE m = 0 -> aa
         [] m = 1 -> aa * c.oe
         [] m = 2 -> aa * c.oc
         [] m = 3 -> (aa * c.rnd) \div 2
         [] m = 4 -> aa * c.el
         [] m = 5 -> IF c.taken < aa THEN c.taken ELSE aa
         [] m = 6 -> (c.taken * aa) \div 10
         [] m = 7 -> (c.dealt * aa) \div 10
         [] m = 8 -> (aa * (20 - c.mh)) \div 4
         [] OTHER -> (aa * (IF c.mv < 0 THEN 0 ELSE c.mv)) \div 2

fx_amount(x, c) == IF x # 0 /\ fx_cond_ok(x, c) THEN fx_scale(x, c) ELSE 0

-----------------------------------------------------------------------------
(* A play, a round and its end.                                            *)

is_legal_play(id, energy, vault) ==
    /\ id \in CardIds
    /\ card_cost(id) <= energy
    /\ card_credit(id) = 0 \/ card_credit(id) <= vault

damage_dealt(a, b) ==
    CASE a < 0 -> 0
      [] a >= 0 /\ b < 0 -> IF card_kind(a) = Defense THEN 0 ELSE card_power(a)
      [] OTHER ->
           IF card_kind(a) = card_kind(b)
             THEN CASE card_kind(a) = Offense -> card_power(a)
                    [] card_kind(a) = Operations -> card_power(a) \div 2
                    [] OTHER -> 0
             ELSE IF kind_beats(card_kind(a), card_kind(b)) THEN card_power(a) ELSE 0

round_start_energy(e) == energy_cap(e + 2)
round_start_vault(v) == IF v > 98 THEN 99 ELSE v + 1
energy_after_play(e, played) ==
    IF played < 0 THEN energy_cap(e + 1) ELSE e - card_cost(played)

Draw == 2       \* neither seat
round_winner_by_hull(h0, h1) == CASE h0 > h1 -> 0 [] h0 < h1 -> 1 [] OTHER -> Draw
round_winner(h0, h1, v0, v1) ==
    IF h0 # h1 THEN round_winner_by_hull(h0, h1)
               ELSE CASE v0 > v1 -> 0 [] v0 < v1 -> 1 [] OTHER -> Draw
match_decided_late(h0, h1) == h0 < 0 \/ h1 < 0     \* mutant
match_decided(h0, h1) == h0 <= 0 \/ h1 <= 0
bankrupt(v) == v < -6

\* Dark Pool is whichever of four cards the seat's roll of this round says
card_substitute(id, roll) ==
    IF id # 34 THEN id
    ELSE CASE roll < 25 -> 35
           [] roll \in 25 .. 49 -> 21
           [] roll \in 50 .. 74 -> 20
           [] OTHER -> 36
=============================================================================
