---------------------------- MODULE FxRulesProofs ----------------------------
(***************************************************************************)
(* Theorems about the animation of a round.  Of its decision layer (module *)
(* FxRules): both clients play the same scene, the stages follow each      *)
(* other, and the cut at 9 s takes nothing.  Of the round it shows (module *)
(* RoundShown): in every match, for all decks and rolls, the two clients   *)
(* tell the story of the round that match.c resolved.                      *)
(***************************************************************************)
EXTENDS RoundShown, MatchRulesProofs

Kinds == {-1, Offense, Operations, Defense}     \* of a card shown, -1 for none

\* core/fx_rules.c is called by both clients with the seats exchanged: they play the same
\* scene, and the winner of one is the loser of the other.
THEOREM SeatsMirrored ==
    ASSUME NEW a \in Kinds, NEW b \in Kinds, NEW cancelled \in BOOLEAN
    PROVE  /\ fx_scenario(a, b, cancelled) = fx_scenario(b, a, cancelled)
           /\ fx_winner_seat(a, b, cancelled) \in {NoSeat, 0, 1}
           /\ fx_winner_seat(a, b, cancelled) = NoSeat => fx_winner_seat(b, a, cancelled) = NoSeat
           /\ fx_winner_seat(a, b, cancelled) # NoSeat =>
                  fx_winner_seat(b, a, cancelled) = 1 - fx_winner_seat(a, b, cancelled)
<1>1. fx_scenario(a, b, cancelled) = fx_scenario(b, a, cancelled)
  BY DEF fx_scenario, Kinds, kind_beats, Offense, Operations, Defense
<1>2. /\ fx_winner_seat(a, b, cancelled) \in {NoSeat, 0, 1}
      /\ fx_winner_seat(a, b, cancelled) = NoSeat => fx_winner_seat(b, a, cancelled) = NoSeat
      /\ fx_winner_seat(a, b, cancelled) # NoSeat =>
             fx_winner_seat(b, a, cancelled) = 1 - fx_winner_seat(a, b, cancelled)
  BY DEF fx_winner_seat, Kinds, NoSeat, kind_beats, Offense, Operations, Defense
<1> QED
  BY <1>1, <1>2

-----------------------------------------------------------------------------
Flags == {0, 1}

\* docs/ANIMATION_AND_AUDIO.md: resources play "strictly after the clash, never
\* overlapping it".  Every stage of begin_stages ends before the next one begins, and takes
\* no time when its flag is not set.
THEOREM StagesInOrder ==
    ASSUME NEW d \in Nat, NEW h \in Flags, NEW a \in Flags, NEW e \in Flags, NEW s \in Flags
    PROVE  /\ fx_clash0 <= fx_clash1(d) /\ fx_clash1(d) < fx_hull0(d)
           /\ fx_hull0(d) <= fx_hull1(d, h) /\ fx_hull1(d, h) <= fx_armor0(d, h)
           /\ fx_armor0(d, h) <= fx_armor1(d, h, a) /\ fx_armor1(d, h, a) <= fx_econ0(d, h, a)
           /\ fx_econ0(d, h, a) <= fx_econ1(d, h, a, e) /\ fx_econ1(d, h, a, e) <= fx_stat0(d, h, a, e)
           /\ fx_stat0(d, h, a, e) <= fx_stat1(d, h, a, e, s)
           /\ fx_stat1(d, h, a, e, s) <= fx_settle0(d, h, a, e, s)
BY DEF Flags, fx_clash0, fx_clash1, fx_hull0, fx_hull1, fx_armor0, fx_armor1, fx_econ0, fx_econ1,
       fx_stat0, fx_stat1, fx_settle0

\* No scene lasts longer than 2.2 s.
LEMMA ClashBounded ==
    ASSUME NEW sc, NEW crit \in BOOLEAN
    PROVE  fx_clash_duration_ms(sc, crit) \in 700 .. 2200
BY DEF fx_clash_duration_ms

\* "at most 9 s": whatever the scene and the stages, the last one runs to its end, the cut
\* of fx_timeline_total_ms at 9 s never takes anything from it.
THEOREM NothingCut ==
    ASSUME NEW sc, NEW crit \in BOOLEAN,
           NEW h \in Flags, NEW a \in Flags, NEW e \in Flags, NEW s \in Flags
    PROVE  LET d == fx_clash_duration_ms(sc, crit)
           IN  /\ fx_timeline_total_ms(d, h, a, e, s) = fx_settle0(d, h, a, e, s) + 320
               /\ fx_timeline_total_ms(d, h, a, e, s) < 9000
<1> DEFINE d == fx_clash_duration_ms(sc, crit)
<1>1. d \in 700 .. 2200
  BY ClashBounded
<1> HIDE DEF d
<1>2. fx_settle0(d, h, a, e, s) \in 0 .. 8679
  <2>1. fx_hull0(d) \in 1520 .. 3020
    BY <1>1 DEF fx_clash0, fx_clash1, fx_hull0
  <2> DEFINE armor == fx_armor0(d, h)
             econ == fx_econ0(d, h, a)
             stat == fx_stat0(d, h, a, e)
  <2>2. armor \in 1520 .. 4090
    BY <2>1 DEF Flags, fx_hull1, fx_armor0
  <2>3. econ = armor + a * 850 + a * 100
    BY DEF fx_armor1, fx_econ0
  <2>4. stat = econ + e * 950 + e * 100
    BY DEF fx_econ1, fx_stat0
  <2>5. fx_settle0(d, h, a, e, s) = stat + s * 750
    BY DEF fx_stat1, fx_settle0
  <2> HIDE DEF armor, econ, stat
  <2>6. econ \in 1520 .. 5040
    BY <2>2, <2>3 DEF Flags
  <2>7. stat \in 1520 .. 6090
    BY <2>4, <2>6 DEF Flags
  <2>8. QED
    BY <2>5, <2>7 DEF Flags
<1>3. /\ fx_timeline_total_ms(d, h, a, e, s) = fx_settle0(d, h, a, e, s) + 320
      /\ fx_timeline_total_ms(d, h, a, e, s) < 9000
  <2>1. PICK settle \in 0 .. 8679 : settle = fx_settle0(d, h, a, e, s)
    BY <1>2
  <2>2. fx_timeline_total_ms(d, h, a, e, s) = IF settle + 320 < 9000 THEN settle + 320 ELSE 9000
    BY <2>1 DEF fx_timeline_total_ms
  <2>3. settle + 320 < 9000
    OBVIOUS
  <2> DEFINE cut == fx_timeline_total_ms(d, h, a, e, s)
  <2>4. cut = settle + 320
    BY <2>2, <2>3
  <2>5. cut < 9000
    BY <2>3, <2>4
  <2>6. QED
    BY <2>1, <2>4, <2>5
<1> QED
  BY <1>3 DEF d

-----------------------------------------------------------------------------
(***************************************************************************)
(* The story of a round is that of the round resolved.                     *)
(***************************************************************************)

\* A round as fx_begin gets it, from either seat.
Round(v) ==
    /\ Played(v.card) /\ Played(v.eff) /\ v.cancelled \in [Seats -> BOOLEAN]
    /\ \A s \in Seats : v.cancelled[s] => v.eff[s] = -1

LEMMA KindIn == \A id \in Plays : fx_kind_of(id) \in Kinds /\ (fx_kind_of(id) = -1 <=> id = -1)
<1> SUFFICES ASSUME NEW id \in Plays
             PROVE  fx_kind_of(id) \in Kinds /\ (fx_kind_of(id) = -1 <=> id = -1)
  OBVIOUS
<1>1. CASE id = -1
  BY <1>1 DEF fx_kind_of, Kinds
<1>2. CASE id \in CardIds
  <2>1. id >= 0 /\ id \in Nat
    BY <1>2 DEF CardIds, num_cards
  <2>2. card_kind(id) \in 0 .. 2
    <3>1. CASE id < 9
      BY <2>1, <3>1 DEF card_kind
    <3>2. CASE id \in 9 .. 104
      <4>1. id \div 16 + 1 \in 1 .. 7 /\ id % 16 \in Nat
        BY <3>2
      <4>2. kind_chunk \in [1 .. 7 -> Int]
        BY DEF kind_chunk
      <4>3. kind_chunk[id \div 16 + 1] \in Int
        BY <4>1, <4>2
      <4>4. \A n \in Nat : \A x \in Int : (x \div 3^n) % 3 \in 0 .. 2
        OBVIOUS
      <4>5. card_kind(id) = (kind_chunk[id \div 16 + 1] \div 3^(id % 16)) % 3
        BY <3>2 DEF card_kind, pow3
      <4>6. QED
        BY ONLY <4>1, <4>3, <4>4, <4>5
    <3>3. QED
      BY <1>2, <3>1, <3>2 DEF CardIds, num_cards
  <2>3. QED
    BY <2>1, <2>2 DEF fx_kind_of, Kinds, Offense, Operations, Defense
<1>3. QED
  BY <1>1, <1>2 DEF Plays

LEMMA ShownIn ==
    ASSUME NEW v, Round(v), NEW s \in Seats
    PROVE  CardShown(v, s) \in Plays
BY DEF Round, Played, CardShown, fx_card_id

\* The same round seen from the other seat: the same scene, crit, cue and duration, with
\* the winner exchanged.
LEMMA ClashMirrored ==
    ASSUME NEW v, NEW o, Round(v), Round(o),
           \A s \in Seats : /\ o.card[s] = v.card[1 - s] /\ o.eff[s] = v.eff[1 - s]
                            /\ o.cancelled[s] = v.cancelled[1 - s] /\ o.dmg[s] = v.dmg[1 - s]
    PROVE  Clash(o) = [Clash(v) EXCEPT !.win = Clash(v).lose, !.lose = Clash(v).win]
<1> DEFINE kind(i) == fx_kind_of(CardShown(v, i))
           cancelled == v.cancelled[0] \/ v.cancelled[1]
           sc == fx_scenario(kind(0), kind(1), cancelled)
           win == fx_winner_seat(kind(0), kind(1), cancelled)
           lose == IF win = NoSeat THEN NoSeat ELSE 1 - win
           owin == fx_winner_seat(kind(1), kind(0), cancelled)
           olose == IF owin = NoSeat THEN NoSeat ELSE 1 - owin
           Crit(w, l) == /\ w # NoSeat
                         /\ fx_is_crit(sc, v.dmg[l], card_power(CardShown(v, w)),
                                       card_power(CardShown(v, l)), card_cost(CardShown(v, w)))
           Word(w) == IF sc = "bypass" THEN card_keyword(CardShown(v, w)) ELSE 0
           Of(w, l, c, k) == [sc |-> sc, win |-> w, lose |-> l, crit |-> c,
                              cue |-> fx_clash_cue(sc, c, k), duration |-> fx_clash_duration_ms(sc, c)]
<1>1. 0 \in Seats /\ 1 \in Seats /\ 1 - 0 = 1 /\ 1 - 1 = 0
  BY DEF Seats
<1>2. CardShown(o, 0) = CardShown(v, 1) /\ CardShown(o, 1) = CardShown(v, 0)
  BY <1>1 DEF CardShown
<1>3. kind(0) \in Kinds /\ kind(1) \in Kinds /\ cancelled \in BOOLEAN
  BY <1>1, ShownIn, KindIn DEF Round
<1>4. (o.cancelled[0] \/ o.cancelled[1]) = cancelled
  BY <1>1 DEF Round
<1> HIDE DEF cancelled
<1>5. /\ fx_scenario(kind(1), kind(0), cancelled) = sc
      /\ win \in {NoSeat, 0, 1}
      /\ win = NoSeat => owin = NoSeat
      /\ win # NoSeat => owin = 1 - win
  BY <1>3, SeatsMirrored
<1>6. owin = lose /\ olose = win
  BY <1>5 DEF NoSeat
<1>7. Clash(v) = Of(win, lose, Crit(win, lose), Word(win))
  BY DEF Clash, cancelled
<1>8. o.dmg[0] = v.dmg[1] /\ o.dmg[1] = v.dmg[0]
  BY <1>1
<1>9. sc = "bypass" => win # NoSeat
  <2>1. ASSUME NEW a \in Kinds, NEW b \in Kinds, NEW c \in BOOLEAN, fx_scenario(a, b, c) = "bypass"
        PROVE  fx_winner_seat(a, b, c) # NoSeat
    BY <2>1 DEF fx_scenario, fx_winner_seat, Mirrors, Clashes, Kinds, NoSeat, Offense, Operations, Defense,
                kind_beats
  <2>2. QED
    BY <1>3, <2>1
<1>10. Clash(o) = Of(lose, win, Crit(win, lose), Word(win))
  <2> DEFINE okind(i) == fx_kind_of(CardShown(o, i))
             osc == fx_scenario(okind(0), okind(1), cancelled)
             w == fx_winner_seat(okind(0), okind(1), cancelled)
             l == IF w = NoSeat THEN NoSeat ELSE 1 - w
             ocrit == /\ w # NoSeat
                      /\ fx_is_crit(osc, o.dmg[l], card_power(CardShown(o, w)),
                                    card_power(CardShown(o, l)), card_cost(CardShown(o, w)))
             word == IF osc = "bypass" THEN card_keyword(CardShown(o, w)) ELSE 0
  <2>1. Clash(o) = [sc |-> osc, win |-> w, lose |-> l, crit |-> ocrit,
                    cue |-> fx_clash_cue(osc, ocrit, word), duration |-> fx_clash_duration_ms(osc, ocrit)]
    BY <1>4 DEF Clash
  <2>2. osc = sc /\ w = lose /\ l = win
    BY <1>2, <1>5, <1>6
  <2> HIDE DEF osc, w, l, okind, kind
  <2>3. CASE win = NoSeat
    <3>1. lose = NoSeat
      BY <2>3
    <3> HIDE DEF win, lose, sc
    <3>2. ocrit = FALSE /\ word = 0 /\ Crit(win, lose) = FALSE /\ Word(win) = 0
      BY <1>9, <2>2, <2>3, <3>1
    <3> HIDE DEF ocrit, word, Crit, Word
    <3>3. QED
      BY <2>1, <2>2, <3>2
  <2>4. CASE win \in {0, 1}
    <3>1. /\ lose \in {0, 1} /\ lose = 1 - win /\ win # NoSeat /\ lose # NoSeat
      BY <2>4 DEF NoSeat
    <3> HIDE DEF win, lose, sc
    <3>2. /\ CardShown(o, w) = CardShown(v, win) /\ CardShown(o, l) = CardShown(v, lose)
          /\ o.dmg[l] = v.dmg[lose]
      BY <1>2, <1>8, <2>2, <2>4, <3>1
    <3>3. ocrit = Crit(win, lose) /\ word = Word(win)
      BY <2>2, <3>1, <3>2
    <3> HIDE DEF ocrit, word, Crit, Word
    <3>4. QED
      BY <2>1, <2>2, <3>3
  <2>5. QED
    BY <1>5, <2>3, <2>4
<1> HIDE DEF sc, win, lose, Crit, Word
<1>11. Clash(v).win = win /\ Clash(v).lose = lose
  BY <1>7
<1>12. [Of(win, lose, Crit(win, lose), Word(win)) EXCEPT !.win = lose, !.lose = win]
           = Of(lose, win, Crit(win, lose), Word(win))
  <2> DEFINE crit == Crit(win, lose)
             cue == fx_clash_cue(sc, crit, Word(win))
             duration == fx_clash_duration_ms(sc, crit)
             S(w, l) == [sc |-> sc, win |-> w, lose |-> l, crit |-> crit, cue |-> cue, duration |-> duration]
             A == Of(win, lose, Crit(win, lose), Word(win))
             B == Of(lose, win, Crit(win, lose), Word(win))
  <2>1. A = S(win, lose) /\ B = S(lose, win)
    BY Zenon
  <2> HIDE DEF crit, cue, duration
  <2> HIDE DEF A, B
  <2>2. S(lose, lose) = [S(win, lose) EXCEPT !.win = lose]
    OBVIOUS
  <2>3. [S(lose, lose) EXCEPT !.lose = win] = S(lose, win)
    OBVIOUS
  <2> HIDE DEF S
  <2>4. [A EXCEPT !.win = lose, !.lose = win] = [S(lose, lose) EXCEPT !.lose = win]
    BY <2>1, <2>2
  <2>5. QED
    BY <2>1, <2>3, <2>4 DEF A, B
<1>13. [Clash(v) EXCEPT !.win = lose, !.lose = win] = Clash(o)
  BY <1>7, <1>10, <1>12
<1>14. QED
  BY <1>11, <1>13

Beating(a, b) == a >= 0 /\ b >= 0 /\ kind_beats(a, b)
Loser(a, b) == IF fx_winner_seat(a, b, FALSE) = NoSeat THEN NoSeat ELSE 1 - fx_winner_seat(a, b, FALSE)

\* With nothing cancelled, the loser of a clash is beaten, and whoever else loses passed.
LEMMA SceneFits ==
    ASSUME NEW a \in Kinds, NEW b \in Kinds
    PROVE  /\ (Loser(a, b) = 0 /\ fx_scenario(a, b, FALSE) \in {"blitz", "block", "bypass"}) <=> Beating(b, a)
           /\ (Loser(a, b) = 1 /\ fx_scenario(a, b, FALSE) \in {"blitz", "block", "bypass"}) <=> Beating(a, b)
           /\ Loser(a, b) \in {NoSeat, 0, 1}
           /\ Loser(a, b) = 0 => a = -1 \/ Beating(b, a)
           /\ Loser(a, b) = 1 => b = -1 \/ Beating(a, b)
BY SMTT(30) DEF Loser, Beating, fx_scenario, fx_winner_seat, Mirrors, Clashes, Kinds, NoSeat, Offense,
                Operations, Defense, kind_beats

LEMMA BeatenShown ==
    ASSUME NEW v, Round(v)
    PROVE  BeatenFits(Clash(v), v.eff)
<1> DEFINE kind(i) == fx_kind_of(CardShown(v, i))
           cancelled == v.cancelled[0] \/ v.cancelled[1]
           sc == fx_scenario(kind(0), kind(1), cancelled)
           win == fx_winner_seat(kind(0), kind(1), cancelled)
           lose == IF win = NoSeat THEN NoSeat ELSE 1 - win
<1>1. Clash(v).sc = sc /\ Clash(v).win = win /\ Clash(v).lose = lose
  BY DEF Clash
<1>2. 0 \in Seats /\ 1 \in Seats /\ 1 - 0 = 1 /\ 1 - 1 = 0
  BY DEF Seats
<1>3. CASE cancelled
  <2>1. sc = "cancel" /\ win = NoSeat
    BY <1>3 DEF fx_scenario, fx_winner_seat
  <2> HIDE DEF sc, win
  <2>2. QED
    BY <1>1, <2>1 DEF BeatenFits
<1>4. CASE ~cancelled
  <2> DEFINE k(s) == fx_kind_of(v.eff[s])
  <2>1. \A s \in Seats : kind(s) = k(s)
    BY <1>4 DEF CardShown, fx_card_id, Seats, Round
  <2>2. /\ v.eff[0] \in Plays /\ v.eff[1] \in Plays
        /\ k(0) \in Kinds /\ k(1) \in Kinds
    BY <1>2, KindIn DEF Round, Played
  <2>3. \A s \in Seats : /\ v.eff[s] >= 0 => k(s) = card_kind(v.eff[s]) /\ k(s) # -1
                         /\ v.eff[s] < 0 => k(s) = -1
                         /\ v.eff[s] < 0 <=> k(s) = -1
    <3>1. ASSUME NEW s \in Seats
          PROVE  /\ v.eff[s] >= 0 => k(s) = card_kind(v.eff[s]) /\ k(s) # -1
                 /\ v.eff[s] < 0 => k(s) = -1
                 /\ v.eff[s] < 0 <=> k(s) = -1
      <4>1. v.eff[s] \in Plays
        BY DEF Round, Played
      <4>2. k(s) = -1 <=> v.eff[s] = -1
        BY <4>1, KindIn
      <4>3. v.eff[s] = -1 \/ (v.eff[s] \in Nat /\ v.eff[s] >= 0)
        BY <4>1 DEF Plays, CardIds, num_cards
      <4>4. v.eff[s] >= 0 => k(s) = card_kind(v.eff[s])
        BY <4>3 DEF fx_kind_of
      <4> HIDE DEF k
      <4>5. QED
        BY <4>2, <4>3, <4>4
    <3>2. QED
      BY <3>1
  <2>4. sc = fx_scenario(k(0), k(1), FALSE) /\ win = fx_winner_seat(k(0), k(1), FALSE)
    BY <1>2, <1>4, <2>1
  <2>5. lose = Loser(k(0), k(1))
    <3> HIDE DEF k, kind
    <3>1. QED
      BY <2>4 DEF Loser
  <2>6. /\ (lose = 0 /\ sc \in {"blitz", "block", "bypass"}) <=> Beating(k(1), k(0))
        /\ (lose = 1 /\ sc \in {"blitz", "block", "bypass"}) <=> Beating(k(0), k(1))
        /\ lose \in {NoSeat, 0, 1}
        /\ lose = 0 => k(0) = -1 \/ Beating(k(1), k(0))
        /\ lose = 1 => k(1) = -1 \/ Beating(k(0), k(1))
    <3> HIDE DEF k, lose, sc, win
    <3>1. QED
      BY <2>2, <2>4, <2>5, SceneFits
  <2>7. \A s \in Seats : Countered(v.eff, s) <=> Beating(k(1 - s), k(s))
    <3> HIDE DEF k
    <3>1. k(0) \in {-1, 0, 1, 2} /\ k(1) \in {-1, 0, 1, 2}
      BY <2>2 DEF Kinds, Offense, Operations, Defense
    <3>2. \A s \in Seats : k(s) >= 0 <=> v.eff[s] >= 0
      <4>1. \A s \in Seats : v.eff[s] \in Int
        BY DEF Round, Played, Plays, CardIds
      <4>2. QED
        BY <2>3, <3>1, <4>1 DEF Seats
    <3>3. QED
      BY <1>2, <2>3, <3>2 DEF Countered, Beating, Seats
  <2>8. ASSUME NEW s \in Seats, lose = s
        PROVE  damage_dealt(v.eff[s], v.eff[1 - s]) = 0
    <3>1. k(s) = -1 \/ Beating(k(1 - s), k(s))
      <4> HIDE DEF k, lose
      <4>1. QED
        BY <1>2, <2>6, <2>8 DEF Seats
    <3>2. v.eff[s] \in Plays /\ k(s) \in Kinds /\ k(1 - s) \in Kinds
      BY <2>2 DEF Seats
    <3> HIDE DEF k, lose, win, sc, kind
    <3>3. CASE k(s) = -1
      BY <2>3, <3>3 DEF damage_dealt
    <3>4. CASE Beating(k(1 - s), k(s))
      <4>1. v.eff[s] >= 0 /\ v.eff[1 - s] >= 0
        BY <2>7, <3>4 DEF Countered, Seats
      <4>2. card_kind(v.eff[s]) = k(s) /\ card_kind(v.eff[1 - s]) = k(1 - s)
        BY <2>3, <4>1 DEF Seats
      <4>3. k(s) # k(1 - s) /\ ~kind_beats(k(s), k(1 - s))
        BY <3>2, <3>4 DEF Beating, kind_beats, Kinds, Offense, Operations, Defense
      <4>4. ~(v.eff[s] < 0) /\ ~(v.eff[1 - s] < 0)
        BY <2>3, <4>1 DEF Seats
      <4>5. QED
        BY <4>1, <4>2, <4>3, <4>4 DEF damage_dealt
    <3>5. QED
      BY <3>1, <3>3, <3>4
  <2>9. win # NoSeat => win = 1 - lose /\ lose \in Seats
    <3> HIDE DEF kind, sc
    <3>1. win \in {NoSeat, 0, 1}
      BY <2>2, <2>4, SeatsMirrored
    <3> HIDE DEF win
    <3>2. QED
      BY <3>1 DEF NoSeat, Seats
  <2>10. win = NoSeat => lose = NoSeat
    OBVIOUS
  <2> HIDE DEF win, lose, sc, k, kind
  <2>11. lose # NoSeat => lose \in Seats /\ win = 1 - lose
    BY <2>9, <2>10
  <2>12. \A s \in Seats : (lose = s /\ sc \in {"blitz", "block", "bypass"}) <=> Countered(v.eff, s)
    BY <1>2, <2>6, <2>7 DEF Seats
  <2>13. QED
    BY <1>1, <2>8, <2>11, <2>12 DEF BeatenFits
<1>5. QED
  BY <1>3, <1>4

\* What resolve_match sends of the round that both seats have locked
Subs == Substituted(meters, LastCards)
Struck == CancelledIn(Paid(meters, LastCards), Subs)

LEMMA ResolvedCards ==
    ASSUME MatchInv, phase = "play"
    PROVE  /\ Played(LastCards) /\ Played(Subs) /\ Played(Resolved.eff)
           /\ Resolved.eff = Effective(Paid(meters, LastCards), Subs)
           /\ Struck \in [Seats -> BOOLEAN]
           /\ \A s \in Seats : Struck[s] => Resolved.eff[s] = -1
<1> DEFINE paid == Paid(meters, LastCards)
<1>1. Played(LastCards) /\ Affordable(meters, LastCards) /\ Metered(meters) /\ round \in Int
  BY DeclaredPlays DEF MatchInv, TypeOK, Metered
<1>2. Played(Subs) /\ Metered(paid)
  BY <1>1, SubstitutedIn, PaidIn DEF Subs
<1>3. Resolved.eff = Effective(paid, Subs)
  BY DEF Resolved, Resolution, Opened, Joined, Fought, Followed, Ended, Subs
<1>4. \A s \in Seats : Struck[s] = Cancelled(paid, Subs, s)
  BY DEF Struck, CancelledIn, Both, Seats
<1>5. \A s \in Seats : Cancelled(paid, Subs, s) \in BOOLEAN
  BY DEF Cancelled
<1>6. Struck \in [Seats -> BOOLEAN]
  BY <1>5, BothIn DEF Struck, CancelledIn, Seats
<1>7. \A s \in Seats : Struck[s] => Effective(paid, Subs)[s] = -1
  <2>1. ASSUME NEW s \in Seats, Cancelled(paid, Subs, s)
        PROVE  Effective(paid, Subs)[s] = -1
    BY <2>1, SMT DEF Effective, Both, Seats, Copied
  <2>2. QED
    BY <1>4, <2>1
<1>8. Played(Effective(paid, Subs))
  BY <1>2, EffectiveIn
<1>9. QED
  BY <1>1, <1>2, <1>3, <1>6, <1>7, <1>8

LEMMA CardsShown ==
    ASSUME MatchInv, phase = "play",
           NEW v, v.card = LastCards, v.eff = Resolved.eff, v.cancelled = Struck
    PROVE  CardsFit(v)
<1> DEFINE paid == Paid(meters, LastCards)
<1> SUFFICES ASSUME NEW s \in Seats, LastCards[s] >= 0, CardShown(v, s) = -1
             PROVE  /\ LastCards[1 - s] = -1
                    /\ HasChannel(card_substitute(LastCards[s], meters[s].roll), 8)
  BY DEF CardsFit
<1>1. /\ Played(LastCards) /\ Played(Subs) /\ Resolved.eff[s] \in Plays
      /\ Resolved.eff = Effective(paid, Subs)
  BY ResolvedCards DEF Played
<1>2. ~Struck[s] /\ Resolved.eff[s] = -1
  BY <1>1 DEF CardShown, fx_card_id, Plays, CardIds
<1>3. ~Cancelled(paid, Subs, s)
  BY <1>2 DEF Struck, CancelledIn, Both, Seats
<1>4. \A t \in Seats : Subs[t] = IF LastCards[t] >= 0 THEN card_substitute(LastCards[t], meters[t].roll) ELSE -1
  BY DEF Subs, Substituted, Both, Seats
<1>5. \A t \in Seats : LastCards[t] >= 0 => Subs[t] >= 0
  <2>1. \A t \in Seats : LastCards[t] \in Int
    BY <1>1 DEF Played, Plays, CardIds
  <2>2. QED
    BY <1>4, <2>1 DEF card_substitute
<1>6. Copied(paid, Subs, s) /\ Subs[1 - s] = -1
  <2>1. Effective(paid, Subs)[s] = IF Copied(paid, Subs, s) THEN Subs[1 - s] ELSE Subs[s]
    BY <1>3 DEF Effective, Both, Seats
  <2>2. QED
    BY <1>1, <1>2, <1>5, <2>1
<1>7. LastCards[1 - s] = -1
  <2>1. 1 - s \in Seats /\ LastCards[1 - s] \in Plays
    BY <1>1 DEF Seats, Played
  <2>2. ~(LastCards[1 - s] >= 0)
    BY <1>5, <1>6, <2>1
  <2>3. QED
    BY <2>1, <2>2 DEF Plays, CardIds
<1>8. HasChannel(Subs[s], 8)
  <2>1. Rider(8, paid, Subs, s, 0, 0) > 0
    BY <1>6 DEF Copied
  <2>2. Subs[s] >= 0
    BY <1>5
  <2> DEFINE c == Context(paid, Subs, s, 0, 0)
  <2>3. Adds(card_fx_a(Subs[s]), 8, c) + Adds(card_fx_b(Subs[s]), 8, c) > 0
    BY <2>1 DEF Rider
  <2> HIDE DEF c
  <2>4. fx_ch(card_fx_a(Subs[s])) = 8 \/ fx_ch(card_fx_b(Subs[s])) = 8
    BY <2>3 DEF Adds
  <2>5. QED
    BY <2>2, <2>4 DEF HasChannel
<1>9. QED
  BY <1>4, <1>7, <1>8

LEMMA HullsShown ==
    ASSUME MatchInv, AccountInv, phase = "play",
           NEW v, \A s \in Seats : v.dmg[s] = Resolved.meters[s].dmg_to /\ v.heal[s] = Resolved.meters[s].heal
    PROVE  HullFits(v, Resolved.meters)
<1>1. /\ Played(LastCards) /\ Affordable(meters, LastCards) /\ Metered(meters) /\ round \in Nat
      /\ \A s \in Seats : Fresh(meters[s])
  BY DeclaredPlays DEF MatchInv, TypeOK, Metered, AccountInv
<1>2. PICK least \in Int : \A s \in Seats : Follows(meters[s], Resolved.meters[s], least)
  BY <1>1, ResolutionTraced DEF Resolved
<1>3. ASSUME NEW s \in Seats, Resolved.meters[s].hull # meters[s].hull_start
      PROVE  v.dmg[s] > 0 \/ v.heal[s] > 0
  BY <1>2, <1>3 DEF Follows, Traced, Noted
<1>4. QED
  BY <1>3 DEF HullFits, fx_has_hull, Seats

\* What the clients make of ROUND_RESULT is the round that match.c resolved, in every match:
\* both show the same scene with the winner exchanged, the seat shown beaten is the one whose
\* card was countered and it dealt nothing, every card that was played is in the arena, and a
\* hull that changed has its stage in the timeline.
THEOREM StoryIsTheRound == Spec => []ShownAsResolved
<1>1. ASSUME MatchInv, AccountInv, phase = "play",
             NEW view, view = RoundResult(0, Resolved, Struck),
             NEW other, other = RoundResult(1, Resolved, Struck)
      PROVE  /\ Clash(other) = [Clash(view) EXCEPT !.win = Clash(view).lose, !.lose = Clash(view).win]
             /\ BeatenFits(Clash(view), Resolved.eff)
             /\ CardsFit(view)
             /\ HullFits(view, Resolved.meters)
  <2> DEFINE dmg == Both(Resolved.meters[0].dmg_to, Resolved.meters[1].dmg_to)
             heal == Both(Resolved.meters[0].heal, Resolved.meters[1].heal)
  <2>1. /\ view.card = LastCards /\ view.eff = Resolved.eff /\ view.cancelled = Struck
        /\ view.dmg = dmg /\ view.heal = heal
    BY <1>1 DEF RoundResult, SeenFrom
  <2>2. /\ other.card = Mirror(LastCards) /\ other.eff = Mirror(Resolved.eff)
        /\ other.cancelled = Mirror(Struck) /\ other.dmg = Mirror(dmg)
    BY <1>1 DEF RoundResult, SeenFrom
  <2>3. \A s \in Seats : dmg[s] = Resolved.meters[s].dmg_to /\ heal[s] = Resolved.meters[s].heal
    BY DEF Both, Seats
  <2> HIDE DEF dmg, heal
  <2>4. /\ Played(LastCards) /\ Played(Resolved.eff) /\ Struck \in [Seats -> BOOLEAN]
        /\ \A s \in Seats : Struck[s] => Resolved.eff[s] = -1
    BY <1>1, ResolvedCards
  <2>5. Round(view)
    BY <2>1, <2>4 DEF Round
  <2>6. \A s \in Seats : /\ other.card[s] = view.card[1 - s] /\ other.eff[s] = view.eff[1 - s]
                         /\ other.cancelled[s] = view.cancelled[1 - s] /\ other.dmg[s] = view.dmg[1 - s]
    BY <2>1, <2>2, MirrorSwaps
  <2>7. Round(other)
    <3>1. Played(Mirror(LastCards)) /\ Played(Mirror(Resolved.eff)) /\ Mirror(Struck) \in [Seats -> BOOLEAN]
      BY <2>4, MirrorIn DEF Played
    <3>2. \A s \in Seats : 1 - s \in Seats
      BY DEF Seats
    <3>3. QED
      BY <2>1, <2>2, <2>4, <2>6, <3>1, <3>2 DEF Round
  <2>8. Clash(other) = [Clash(view) EXCEPT !.win = Clash(view).lose, !.lose = Clash(view).win]
    BY <2>5, <2>6, <2>7, ClashMirrored
  <2>9. BeatenFits(Clash(view), Resolved.eff)
    BY <2>1, <2>5, BeatenShown
  <2>10. CardsFit(view)
    BY <1>1, <2>1, CardsShown
  <2>11. HullFits(view, Resolved.meters)
    BY <1>1, <2>1, <2>3, HullsShown
  <2>12. QED
    BY <2>8, <2>9, <2>10, <2>11
<1>2. MatchInv /\ AccountInv => ShownAsResolved
  BY <1>1 DEF ShownAsResolved, Struck, Subs
<1>3. QED
  BY <1>2, MatchTraced, PTL
=============================================================================
