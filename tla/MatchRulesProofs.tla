--------------------------- MODULE MatchRulesProofs ---------------------------
(***************************************************************************)
(* Theorems about the match of MatchRules, for every pair of decks, hand,  *)
(* pile capacity, number of rounds and set of rolls: the meters keep the   *)
(* ranges of their fields and a locked card can be paid for (TypeOK), no   *)
(* copy of a card is lost or doubled and there is always one to draw       *)
(* (CardsKept), the match goes on just as long as both seats can and its   *)
(* results fit each other (OutcomeFits), a lifeline is the last word on    *)
(* the hull (LifelineHolds), neither seat is favoured in the fight         *)
(* (SeatFair), in matches of up to 100 rounds the outcome accounts for all *)
(* that the hull lost and won (Accounted), and the match implements Duel   *)
(* (KeepsDuel).                                                            *)
(*                                                                         *)
(* The resolution of a round is a chain of some fifteen steps over the     *)
(* meters: each has a lemma that says what it keeps.                       *)
(***************************************************************************)
EXTENDS MatchRules, FiniteSetTheorems, TLAPS

Plays == CardIds \cup {-1}      \* a card, or no card

-----------------------------------------------------------------------------
(***************************************************************************)
(* The catalog: what the resolution needs to know of the 105 cards.        *)
(***************************************************************************)

LEMMA LookupIn ==
    ASSUME NEW S, NEW lo \in [1 .. 16 -> S], NEW mid \in [1 .. 16 -> S], NEW hi \in [1 .. 16 -> S],
           NEW top \in [1 .. 16 -> S], NEW n1 \in [1 .. 16 -> S], NEW n2 \in [1 .. 16 -> S], NEW id \in 9 .. 104
    PROVE  Lookup(id, lo, mid, hi, top, n1, n2) \in S
<1>1. CASE id < 25
  BY <1>1 DEF Lookup
<1>2. CASE id \in 25 .. 40
  BY <1>2 DEF Lookup
<1>3. CASE id \in 41 .. 56
  BY <1>3 DEF Lookup
<1>4. CASE id \in 57 .. 72
  BY <1>4 DEF Lookup
<1>5. CASE id \in 73 .. 88
  BY <1>5 DEF Lookup
<1>6. CASE id \in 89 .. 104
  BY <1>6 DEF Lookup
<1>7. QED
  BY <1>1, <1>2, <1>3, <1>4, <1>5, <1>6

\* A card costs from 0 to 6.
LEMMA CostIn ==
    ASSUME NEW id \in Plays
    PROVE  card_cost(id) \in 0 .. 6
<1>1. CASE id < 9
  BY <1>1 DEF Plays, CardIds, num_cards, card_cost, base_tier
<1>2. CASE id \in 9 .. 104
  <2>1. /\ cost_lo \in [1 .. 16 -> 0 .. 6] /\ cost_mid \in [1 .. 16 -> 0 .. 6]
        /\ cost_hi \in [1 .. 16 -> 0 .. 6] /\ cost_top \in [1 .. 16 -> 0 .. 6]
        /\ cost_n1 \in [1 .. 16 -> 0 .. 6] /\ cost_n2 \in [1 .. 16 -> 0 .. 6]
    BY DEF cost_lo, cost_mid, cost_hi, cost_top, cost_n1, cost_n2
  <2>2. Lookup(id, cost_lo, cost_mid, cost_hi, cost_top, cost_n1, cost_n2) \in 0 .. 6
    BY <1>2, <2>1, LookupIn
  <2>3. QED
    BY <1>2, <2>2 DEF card_cost
<1>3. QED
  BY <1>1, <1>2 DEF Plays, CardIds, num_cards

LEMMA PowerIn ==
    ASSUME NEW id \in Plays
    PROVE  card_power(id) \in Nat
<1>1. CASE id < 9
  BY <1>1 DEF Plays, CardIds, num_cards, card_power, base_tier
<1>2. CASE id \in 9 .. 104
  <2>1. /\ power_lo \in [1 .. 16 -> Nat] /\ power_mid \in [1 .. 16 -> Nat]
        /\ power_hi \in [1 .. 16 -> Nat] /\ power_top \in [1 .. 16 -> Nat]
        /\ power_n1 \in [1 .. 16 -> Nat] /\ power_n2 \in [1 .. 16 -> Nat]
    BY DEF power_lo, power_mid, power_hi, power_top, power_n1, power_n2
  <2>2. Lookup(id, power_lo, power_mid, power_hi, power_top, power_n1, power_n2) \in Nat
    BY <1>2, <2>1, LookupIn
  <2>3. QED
    BY <1>2, <2>2 DEF card_power
<1>3. QED
  BY <1>1, <1>2 DEF Plays, CardIds, num_cards

LEMMA CreditIn ==
    ASSUME NEW id \in Plays
    PROVE  card_credit(id) \in Nat
BY DEF card_credit

\* The words of a channel on which the proofs rely: lifelines (5), and those of channel 3,
\* have a positive amount and neither a condition nor a scale.
Steady(x) == x \in Nat /\ (fx_ch(x) \in {3, 5} => x % 10000000 \in 1 .. 99)

LEMMA WordsIn ==
    ASSUME NEW id \in CardIds
    PROVE  Steady(card_fx_a(id)) /\ Steady(card_fx_b(id))
<1> DEFINE W == {x \in Nat : Steady(x)}
<1>1. CASE id < 9
  <2>1. Steady(card_fx_a(id))
    BY <1>1, SMTT(30) DEF CardIds, num_cards, card_fx_a, base_fx, fx, Steady, fx_ch
  <2>2. Steady(card_fx_b(id))
    <3>1. card_fx_b(id) = 0
      BY <1>1, SMTT(30) DEF card_fx_b, CardIds, num_cards
    <3>2. Steady(0)
      BY DEF Steady, fx_ch
    <3>3. QED
      BY <3>1, <3>2
  <2>3. QED
    BY <2>1, <2>2
<1>2. CASE id \in 9 .. 104
  <2>1. /\ fxa_lo \in [1 .. 16 -> W] /\ fxa_mid \in [1 .. 16 -> W]
        /\ fxa_hi \in [1 .. 16 -> W] /\ fxa_top \in [1 .. 16 -> W]
        /\ fxa_n1 \in [1 .. 16 -> W] /\ fxa_n2 \in [1 .. 16 -> W]
    <3>1. fxa_lo \in [1 .. 16 -> W] /\ fxa_mid \in [1 .. 16 -> W]
      BY SMTT(30) DEF fxa_lo, fxa_mid, fx, Steady, fx_ch
    <3>2. fxa_hi \in [1 .. 16 -> W] /\ fxa_top \in [1 .. 16 -> W]
      BY SMTT(30) DEF fxa_hi, fxa_top, fx, Steady, fx_ch
    <3>3. fxa_n1 \in [1 .. 16 -> W] /\ fxa_n2 \in [1 .. 16 -> W]
      BY SMTT(30) DEF fxa_n1, fxa_n2, fx, Steady, fx_ch
    <3>4. QED
      BY <3>1, <3>2, <3>3
  <2>2. card_fx_a(id) \in W
    <3> HIDE DEF W
    <3>1. Lookup(id, fxa_lo, fxa_mid, fxa_hi, fxa_top, fxa_n1, fxa_n2) \in W
      BY <1>2, <2>1, LookupIn
    <3>2. QED
      BY <1>2, <3>1 DEF card_fx_a
  <2>3. card_fx_b(id) \in W
    BY <1>2 DEF card_fx_b, fxb_lo, fxb_mid, fxb_hi, fxb_top, fxb_n1, fxb_n2, fx, Steady, fx_ch
  <2>4. QED
    BY <2>2, <2>3
<1>3. QED
  BY <1>1, <1>2 DEF CardIds, num_cards

-----------------------------------------------------------------------------
(***************************************************************************)
(* The effects of a card.                                                  *)
(***************************************************************************)

\* What is read of a context as a number: kinds are only compared.
Numeric(c) ==
    /\ c.dealt \in Int /\ c.taken \in Int /\ c.oc \in Int /\ c.mh \in Int /\ c.oe \in Int /\ c.el \in Int
    /\ c.mv \in Int /\ c.rnd \in Int

LEMMA AmountIn ==
    ASSUME NEW x \in Nat, NEW c, Numeric(c)
    PROVE  fx_amount(x, c) \in Int
<1> DEFINE aa == fx_aa(x)
<1>1. aa \in Int /\ fx_m(x) \in Int
  BY DEF fx_aa, fx_m
<1>2. /\ c.dealt \in Int /\ c.taken \in Int /\ c.oc \in Int /\ c.mh \in Int /\ c.oe \in Int /\ c.el \in Int
      /\ c.mv \in Int /\ c.rnd \in Int
  BY DEF Numeric
<1> HIDE DEF aa
<1>3. /\ aa * c.oe \in Int /\ aa * c.oc \in Int /\ aa * c.rnd \in Int /\ aa * c.el \in Int
      /\ c.taken * aa \in Int /\ c.dealt * aa \in Int /\ aa * (20 - c.mh) \in Int
      /\ aa * (IF c.mv < 0 THEN 0 ELSE c.mv) \in Int
  BY <1>1, <1>2
<1>4. fx_scale(x, c) \in Int
  BY <1>1, <1>2, <1>3 DEF fx_scale, aa
<1>5. QED
  BY <1>4 DEF fx_amount

Metered(m) == m \in [Seats -> MeterType]
Played(e) == e \in [Seats -> Plays]

LEMMA BothIn ==
    ASSUME NEW S, NEW x \in S, NEW y \in S
    PROVE  Both(x, y) \in [Seats -> S] /\ Both(x, y)[0] = x /\ Both(x, y)[1] = y
BY DEF Both, Seats

LEMMA ClampIn ==
    ASSUME NEW v \in Int, NEW lo \in Int, NEW hi \in Int, lo <= hi
    PROVE  clampi(v, lo, hi) \in lo .. hi
BY DEF clampi

LEMMA Clamps ==
    \A v \in Int :
        /\ clampi(v, -100, 20) \in -100 .. 20
        /\ clampi(v, -100, 99) \in -100 .. 99
        /\ clampi(v, 0, 6) \in 0 .. 6
        /\ clampi(v, 0, 12) \in 0 .. 12
        /\ clampi(v, -20, 20) \in -20 .. 20
BY DEF clampi

LEMMA MeterFields ==
    ASSUME NEW m, Metered(m), NEW s \in Seats
    PROVE  /\ m[s] \in MeterType
           /\ m[s].hull \in -100 .. 20 /\ m[s].hull_start \in -100 .. 20 /\ m[s].hull_prev \in -100 .. 20
           /\ m[s].energy \in 0 .. 6 /\ m[s].armor \in 0 .. 12 /\ m[s].vault \in -100 .. 99
           /\ m[s].burn_amt \in Int /\ m[s].burn_left \in Int /\ m[s].regen_amt \in Int /\ m[s].regen_left \in Int
           /\ m[s].hidden \in Int /\ m[s].next_e \in -20 .. 20 /\ m[s].roll \in 0 .. 99
           /\ m[s].dmg_to \in Int /\ m[s].heal \in Int /\ m[s].saved \in BOOLEAN
BY DEF Metered, MeterType, start_hull, EnergyCap, DW_ARMOR_MAX

\* A field may be set to any value of its range.
LEMMA HullIn == \A r \in MeterType, v \in -100 .. 20 : [r EXCEPT !.hull = v] \in MeterType
BY DEF MeterType, start_hull, EnergyCap, DW_ARMOR_MAX
LEMMA HullStartIn == \A r \in MeterType, v \in -100 .. 20 : [r EXCEPT !.hull_start = v] \in MeterType
BY DEF MeterType, start_hull, EnergyCap, DW_ARMOR_MAX
LEMMA HullPrevIn == \A r \in MeterType, v \in -100 .. 20 : [r EXCEPT !.hull_prev = v] \in MeterType
BY DEF MeterType, start_hull, EnergyCap, DW_ARMOR_MAX
LEMMA EnergyIn == \A r \in MeterType, v \in 0 .. 6 : [r EXCEPT !.energy = v] \in MeterType
BY DEF MeterType, start_hull, EnergyCap, DW_ARMOR_MAX
LEMMA ArmorIn == \A r \in MeterType, v \in 0 .. 12 : [r EXCEPT !.armor = v] \in MeterType
BY DEF MeterType, start_hull, EnergyCap, DW_ARMOR_MAX
LEMMA VaultIn == \A r \in MeterType, v \in -100 .. 99 : [r EXCEPT !.vault = v] \in MeterType
BY DEF MeterType, start_hull, EnergyCap, DW_ARMOR_MAX
LEMMA NextIn == \A r \in MeterType, v \in -20 .. 20 : [r EXCEPT !.next_e = v] \in MeterType
BY DEF MeterType, start_hull, EnergyCap, DW_ARMOR_MAX
LEMMA RollIn == \A r \in MeterType, v \in 0 .. 99 : [r EXCEPT !.roll = v] \in MeterType
BY DEF MeterType, start_hull, EnergyCap, DW_ARMOR_MAX
LEMMA SavedIn == \A r \in MeterType, v \in BOOLEAN : [r EXCEPT !.saved = v] \in MeterType
BY DEF MeterType, start_hull, EnergyCap, DW_ARMOR_MAX
LEMMA BurnAmtIn == \A r \in MeterType, v \in Int : [r EXCEPT !.burn_amt = v] \in MeterType
BY DEF MeterType
LEMMA BurnLeftIn == \A r \in MeterType, v \in Int : [r EXCEPT !.burn_left = v] \in MeterType
BY DEF MeterType
LEMMA RegenAmtIn == \A r \in MeterType, v \in Int : [r EXCEPT !.regen_amt = v] \in MeterType
BY DEF MeterType
LEMMA RegenLeftIn == \A r \in MeterType, v \in Int : [r EXCEPT !.regen_left = v] \in MeterType
BY DEF MeterType
LEMMA HiddenIn == \A r \in MeterType, v \in Int : [r EXCEPT !.hidden = v] \in MeterType
BY DEF MeterType
LEMMA DmgToIn == \A r \in MeterType, v \in Int : [r EXCEPT !.dmg_to = v] \in MeterType
BY DEF MeterType
LEMMA HealIn == \A r \in MeterType, v \in Int : [r EXCEPT !.heal = v] \in MeterType
BY DEF MeterType

LEMMA ContextIn ==
    ASSUME NEW m, Metered(m), NEW e, Played(e), NEW s \in Seats, NEW dealt \in Int, NEW taken \in Int, round \in Int
    PROVE  Numeric(Context(m, e, s, dealt, taken))
<1>1. 1 - s \in Seats /\ e[1 - s] \in Plays /\ card_cost(e[1 - s]) \in Int
  BY CostIn DEF Seats, Played
<1>2. QED
  BY <1>1, MeterFields DEF Context, Numeric

LEMMA AddsIn ==
    ASSUME NEW w \in Nat, NEW ch, NEW c, Numeric(c)
    PROVE  Adds(w, ch, c) \in Nat
BY AmountIn DEF Adds

LEMMA RiderIn ==
    ASSUME NEW m, Metered(m), NEW e, Played(e), NEW s \in Seats, NEW dealt \in Int, NEW taken \in Int, round \in Int,
           NEW ch
    PROVE  Rider(ch, m, e, s, dealt, taken) \in Nat
<1>1. CASE e[s] >= 0
  <2>1. e[s] \in CardIds
    BY <1>1 DEF Played, Plays, CardIds
  <2>2. card_fx_a(e[s]) \in Nat /\ card_fx_b(e[s]) \in Nat
    BY <2>1, WordsIn DEF Steady
  <2> DEFINE c == Context(m, e, s, dealt, taken)
  <2>3. Numeric(c)
    BY ContextIn
  <2> HIDE DEF c
  <2>4. Adds(card_fx_a(e[s]), ch, c) \in Nat /\ Adds(card_fx_b(e[s]), ch, c) \in Nat
    BY <2>2, <2>3, AddsIn
  <2>5. QED
    BY <1>1, <2>4 DEF Rider, c, Played, Plays, CardIds
<1>2. CASE ~(e[s] >= 0)
  <2>1. e[s] < 0
    BY <1>2 DEF Played, Plays, CardIds, num_cards
  <2>2. QED
    BY <2>1 DEF Rider
<1>3. QED
  BY <1>1, <1>2

LEMMA DamageIn ==
    ASSUME NEW a \in Plays, NEW b \in Plays
    PROVE  damage_dealt(a, b) \in Nat
BY PowerIn DEF damage_dealt

-----------------------------------------------------------------------------
(***************************************************************************)
(* The resolution of a round keeps the meters in their ranges.             *)
(***************************************************************************)

\* Every card declared is one the seat may play.
Affordable(m, decl) == \A s \in Seats : decl[s] >= 0 => is_legal_play(decl[s], m[s].energy, m[s].vault)

LEMMA PaidIn ==
    ASSUME NEW m, Metered(m), NEW decl, Played(decl), Affordable(m, decl)
    PROVE  Metered(Paid(m, decl))
<1> DEFINE energy(s) == energy_after_play(m[s].energy, decl[s]) % 256
           vault(s) == IF decl[s] >= 0 THEN clampi(m[s].vault - card_credit(decl[s]), -100, 99) ELSE m[s].vault
           After(s) == [m[s] EXCEPT !.energy = energy(s), !.vault = vault(s)]
<1>1. ASSUME NEW s \in Seats
      PROVE  After(s) \in MeterType
  <2>1. decl[s] \in Plays /\ card_cost(decl[s]) \in 0 .. 6 /\ card_credit(decl[s]) \in Nat
    BY CostIn, CreditIn DEF Played
  <2>2. energy(s) \in 0 .. 6
    <3>1. CASE decl[s] < 0
      BY <3>1, MeterFields DEF energy_after_play, energy_cap, EnergyCap
    <3>2. CASE decl[s] >= 0
      <4>1. card_cost(decl[s]) <= m[s].energy
        BY <3>2 DEF Affordable, is_legal_play
      <4>2. m[s].energy - card_cost(decl[s]) \in 0 .. 6
        BY <2>1, <4>1, MeterFields
      <4>3. energy_after_play(m[s].energy, decl[s]) = m[s].energy - card_cost(decl[s])
        BY <2>1, <3>2 DEF energy_after_play, Plays, CardIds
      <4>4. QED
        BY <4>2, <4>3
    <3>3. QED
      BY <2>1, <3>1, <3>2 DEF Plays, CardIds
  <2>3. vault(s) \in -100 .. 99
    <3>1. m[s].vault \in -100 .. 99 /\ m[s].vault - card_credit(decl[s]) \in Int
      BY <2>1, MeterFields
    <3>2. clampi(m[s].vault - card_credit(decl[s]), -100, 99) \in -100 .. 99
      BY <3>1, Clamps
    <3>3. QED
      BY <3>1, <3>2
  <2>4. m[s] \in MeterType
    BY MeterFields
  <2> HIDE DEF energy, vault
  <2>5. QED
    BY <2>2, <2>3, <2>4, EnergyIn, VaultIn
<1>2. Paid(m, decl) = Both(After(0), After(1))
  BY DEF Paid
<1> HIDE DEF After
<1>3. QED
  BY <1>1, <1>2, BothIn DEF Metered, Seats

LEMMA SubstitutedIn ==
    ASSUME NEW m, NEW decl, Played(decl)
    PROVE  Played(Substituted(m, decl))
<1> DEFINE Of(s) == IF decl[s] >= 0 THEN card_substitute(decl[s], m[s].roll) ELSE -1
<1>1. ASSUME NEW s \in Seats
      PROVE  Of(s) \in Plays
  <2>1. decl[s] \in Plays
    BY DEF Played
  <2>2. QED
    BY <2>1 DEF Plays, CardIds, num_cards, card_substitute
<1>2. Substituted(m, decl) = Both(Of(0), Of(1))
  BY DEF Substituted
<1> HIDE DEF Of
<1>3. QED
  BY <1>1, <1>2, BothIn DEF Played, Seats

LEMMA EffectiveIn ==
    ASSUME NEW m, NEW orig, Played(orig)
    PROVE  Played(Effective(m, orig))
<1> DEFINE CardOf(s) == CASE Cancelled(m, orig, s) -> -1
                          [] Copied(m, orig, s) -> orig[1 - s]
                          [] OTHER -> orig[s]
<1>1. ASSUME NEW s \in Seats
      PROVE  CardOf(s) \in Plays
  <2>1. orig[s] \in Plays /\ orig[1 - s] \in Plays /\ -1 \in Plays
    BY DEF Played, Plays, Seats
  <2>2. QED
    BY <2>1 DEF Copied
<1>2. Effective(m, orig) = Both(CardOf(0), CardOf(1))
  BY DEF Effective
<1> HIDE DEF CardOf
<1>3. QED
  BY <1>1, <1>2, BothIn DEF Played, Seats

Dealing(d) == d \in [Seats -> Nat]

LEMMA UnreflectedIn ==
    ASSUME NEW m, NEW e, NEW d, Dealing(d), NEW s \in Seats
    PROVE  Dealing(Unreflected(m, e, d, s))
<1>1. d \in [Seats -> Nat] /\ 1 - s \in Seats /\ 0 \in Nat
  BY DEF Dealing, Seats
<1>2. [d EXCEPT ![1 - s] = 0] \in [Seats -> Nat]
  BY <1>1
<1>3. QED
  BY <1>1, <1>2 DEF Dealing, Unreflected

\* The rider sums, channel by channel
LEMMA RidersIn ==
    ASSUME NEW channels, NEW m, Metered(m), NEW e, Played(e), NEW d, Dealing(d), round \in Int
    PROVE  Riders(channels, m, e, d) \in [Seats -> [DOMAIN channels -> Nat]]
<1>1. ASSUME NEW s \in Seats
      PROVE  RidersOf(channels, m, e, d, s) \in [DOMAIN channels -> Nat]
  <2>1. d[s] \in Int /\ d[1 - s] \in Int
    BY DEF Dealing, Seats
  <2>2. \A n \in DOMAIN channels : Rider(channels[n], m, e, s, d[s], d[1 - s]) \in Nat
    BY <2>1, RiderIn
  <2>3. QED
    BY <2>2 DEF RidersOf
<1>2. QED
  BY <1>1, BothIn DEF Riders, Seats

LEMMA DealtIn ==
    ASSUME NEW e, NEW d, Dealing(d), NEW b, Dealing(b), NEW h \in [Seats -> [DOMAIN Attack -> Nat]]
    PROVE  Dealing(Dealt(e, d, b, h))
<1> DEFINE Countered(s) == e[1 - s] >= 0 /\ kind_beats(card_kind(e[1 - s]), card_kind(e[s]))
           Hit(s) == IF Countered(s) THEN d[s] ELSE d[s] + h[s].damage
           Larger(hit, s) == IF b[s] > hit THEN b[s] ELSE hit
           Landed(s) == IF e[s] < 0 THEN 0 ELSE Larger(Hit(s), s) + h[s].extra
           After(s) == CASE h[1 - s].absorb > 0 -> 0
                         [] h[1 - s].absorb = 0 /\ h[0].halve + h[1].halve > 0 -> Landed(s) \div 2
                         [] OTHER -> Landed(s)
<1>1. ASSUME NEW s \in Seats
      PROVE  After(s) \in Nat
  <2>1. d[s] \in Nat /\ b[s] \in Nat /\ h[s].damage \in Nat /\ h[s].extra \in Nat
    BY DEF Dealing, Attack
  <2>2. Hit(s) \in Nat
    BY <2>1
  <2> HIDE DEF Hit, Countered
  <2>3. Landed(s) \in Nat
    BY <2>1, <2>2
  <2> HIDE DEF Landed
  <2>4. QED
    BY <2>3
<1>2. Dealt(e, d, b, h) = Both(After(0), After(1))
  BY DEF Dealt
<1> HIDE DEF After
<1>3. QED
  BY <1>1, <1>2, BothIn DEF Dealing, Seats

LEMMA ExchangeIn ==
    ASSUME NEW m, Metered(m), NEW e, Played(e), round \in Int
    PROVE  Dealing(Exchange(m, e).dealt)
<1> DEFINE d0 == Both(damage_dealt(e[0], e[1]), damage_dealt(e[1], e[0]))
           d1 == Unreflected(m, e, d0, 0)
           d2 == Unreflected(m, e, d1, 1)
           b  == Both(Bypass(m, e, d0, 0), Bypass(m, e, d1, 1))
           h  == Riders(Attack, m, e, d2)
<1>1. Dealing(d0)
  BY DamageIn, BothIn DEF Dealing, Played, Seats
<1> HIDE DEF d0
<1>2. Dealing(d1)
  BY <1>1, UnreflectedIn DEF Seats
<1> HIDE DEF d1
<1>3. Dealing(d2)
  BY <1>2, UnreflectedIn DEF Seats
<1> HIDE DEF d2
<1>4. Dealing(b)
  <2>1. d0[0] \in Int /\ d0[1] \in Int /\ d1[0] \in Int /\ d1[1] \in Int /\ 0 \in Seats /\ 1 \in Seats
    BY <1>1, <1>2 DEF Dealing, Seats
  <2>2. Bypass(m, e, d0, 0) \in Nat /\ Bypass(m, e, d1, 1) \in Nat
    BY <2>1, RiderIn DEF Bypass
  <2>3. QED
    BY <2>2, BothIn DEF Dealing
<1>5. h \in [Seats -> [DOMAIN Attack -> Nat]]
  BY <1>3, RidersIn
<1>6. Exchange(m, e) = Ridden(e, d2, b, h)
  BY DEF Exchange, Answered, Unanswered, Bypassed, d0, d1, d2
<1> HIDE DEF b, h
<1>7. QED
  BY <1>3, <1>4, <1>5, <1>6, DealtIn DEF Ridden

\* What an attack leaves behind, x
Exchanged(x) == Dealing(x.dealt)

LEMMA AttackedIn ==
    ASSUME NEW m, Metered(m), NEW x, Exchanged(x)
    PROVE  Metered(Attacked(m, x))
<1> DEFINE lost(s) == x.dealt[1 - s] - Soak(m, x, s)
           After(s) == [m[s] EXCEPT !.armor = @ - Soak(m, x, s), !.hull = clampi(@ - lost(s), -100, start_hull),
                                    !.dmg_to = lost(s), !.heal = 0, !.saved = FALSE]
<1>1. ASSUME NEW s \in Seats
      PROVE  After(s) \in MeterType
  <2>1. x.dealt[1 - s] \in Nat /\ m[s] \in MeterType /\ m[s].hull \in Int /\ m[s].armor \in 0 .. 12
    <3>1. 1 - s \in Seats
      BY DEF Seats
    <3>2. x.dealt[1 - s] \in Nat
      BY <3>1 DEF Exchanged, Dealing
    <3>3. QED
      BY <3>2, MeterFields
  <2>2. Soak(m, x, s) \in Int /\ m[s].armor - Soak(m, x, s) \in 0 .. 12
    <3>1. CASE x.pierce[1 - s]
      BY <2>1, <3>1 DEF Soak
    <3>2. CASE ~x.pierce[1 - s] /\ m[s].armor < x.dealt[1 - s]
      BY <2>1, <3>2 DEF Soak
    <3>3. CASE ~x.pierce[1 - s] /\ ~(m[s].armor < x.dealt[1 - s])
      <4>1. Soak(m, x, s) = x.dealt[1 - s]
        BY <3>3 DEF Soak
      <4>2. QED
        BY <2>1, <3>3, <4>1
    <3>4. QED
      BY <3>1, <3>2, <3>3
  <2>3. lost(s) \in Int /\ clampi(m[s].hull - lost(s), -100, 20) \in -100 .. 20
    BY <2>1, <2>2, Clamps
  <2> HIDE DEF lost
  <2>4. 0 \in Int /\ FALSE \in BOOLEAN
    OBVIOUS
  <2>5. QED
    BY <2>1, <2>2, <2>3, <2>4, ArmorIn, HullIn, DmgToIn, HealIn, SavedIn DEF start_hull
<1>2. Attacked(m, x) = Both(After(0), After(1))
  BY DEF Attacked
<1> HIDE DEF After
<1>3. QED
  BY <1>1, <1>2, BothIn DEF Metered, Seats

\* The riders of the aftermath are natural numbers, by name.
Riding(a) == a \in [Seats -> [DOMAIN Aftermath -> Nat]]

LEMMA RidingFields ==
    ASSUME NEW a, Riding(a), NEW s \in Seats
    PROVE  /\ a[s].heal \in Nat /\ a[s].selfdmg \in Nat /\ a[s].truedmg \in Nat /\ a[s].energy \in Nat
           /\ a[s].oenergy \in Nat /\ a[s].nexte \in Nat /\ a[s].nextl \in Nat /\ a[s].onextl \in Nat
           /\ a[s].armor \in Nat /\ a[s].vault \in Nat /\ a[s].spend \in Nat /\ a[s].ospend \in Nat
           /\ a[s].burn \in Nat /\ a[s].regen \in Nat /\ a[s].lock \in Nat /\ a[s].blind \in Nat
           /\ a[s].swap \in Nat /\ a[s].redraw \in Nat /\ a[s].equalize \in Nat /\ a[s].chrono \in Nat
           /\ a[s].convert \in Nat /\ a[s].cleanse \in Nat /\ a[s].debtfree \in Nat
BY DEF Riding, Aftermath

LEMMA HurtIn ==
    ASSUME NEW m, Metered(m), NEW a, Riding(a)
    PROVE  Metered(Hurt(m, a))
<1> DEFINE lost(s) == a[s].selfdmg + a[1 - s].truedmg
           After(s) == [m[s] EXCEPT !.hull = clampi(@ - lost(s), -100, start_hull), !.dmg_to = @ + lost(s)]
<1>1. ASSUME NEW s \in Seats
      PROVE  After(s) \in MeterType
  <2>1. 1 - s \in Seats /\ m[s] \in MeterType /\ m[s].hull \in Int /\ m[s].dmg_to \in Int
    <3>1. 1 - s \in Seats
      BY DEF Seats
    <3>2. QED
      BY <3>1, MeterFields
  <2>2. lost(s) \in Int
    BY <2>1, RidingFields
  <2> HIDE DEF lost
  <2>3. m[s].dmg_to + lost(s) \in Int /\ clampi(m[s].hull - lost(s), -100, 20) \in -100 .. 20
    BY <2>1, <2>2, Clamps
  <2>4. QED
    BY <2>1, <2>3, HullIn, DmgToIn DEF start_hull
<1>2. Hurt(m, a) = Both(After(0), After(1))
  BY DEF Hurt
<1> HIDE DEF After
<1>3. QED
  BY <1>1, <1>2, BothIn DEF Metered, Seats

LEMMA SettleIn ==
    ASSUME NEW m, Metered(m), NEW a, Riding(a), NEW s \in Seats
    PROVE  Metered(Settle(m, a, s))
<1> DEFINE healed == IF m[s].hull < start_hull THEN clampi(a[s].heal, 0, start_hull - m[s].hull) ELSE 0
           moved == clampi(a[s].convert, 0, m[s].energy)
           vault == clampi(m[s].vault + a[s].vault - a[s].spend, -100, 99)
           armor == clampi(clampi(m[s].armor + a[s].armor, 0, DW_ARMOR_MAX) + moved, 0, DW_ARMOR_MAX)
           self == [m[s] EXCEPT
               !.hull = @ + healed,
               !.heal = @ + healed,
               !.armor = clampi(clampi(@ + a[s].armor, 0, DW_ARMOR_MAX) + moved, 0, DW_ARMOR_MAX),
               !.energy = clampi(@ - moved + a[s].energy, 0, EnergyCap),
               !.next_e = clampi(@ + a[s].nexte - a[s].nextl, -20, 20),
               !.vault = IF a[s].debtfree > 0 /\ vault < 0 THEN 0 ELSE vault,
               !.burn_left = IF a[s].cleanse > 0 THEN 0 ELSE @]
           other == [m[1 - s] EXCEPT
               !.energy = clampi(@ - a[s].oenergy, 0, EnergyCap),
               !.next_e = clampi(@ - a[s].onextl, -20, 20),
               !.vault = clampi(@ - a[s].ospend, -100, 99)]
<1>1. 1 - s \in Seats
  BY DEF Seats
<1>2. self \in MeterType
  <2>1. /\ m[s] \in MeterType /\ m[s].hull \in -100 .. 20 /\ m[s].energy \in 0 .. 6 /\ m[s].armor \in 0 .. 12
        /\ m[s].vault \in -100 .. 99 /\ m[s].burn_left \in Int /\ m[s].next_e \in -20 .. 20 /\ m[s].heal \in Int
    BY MeterFields
  <2>2. /\ a[s].heal \in Nat /\ a[s].energy \in Nat /\ a[s].nexte \in Nat /\ a[s].nextl \in Nat
        /\ a[s].armor \in Nat /\ a[s].vault \in Nat /\ a[s].spend \in Nat /\ a[s].convert \in Nat
    BY RidingFields
  <2>3. healed \in Int /\ m[s].hull + healed \in -100 .. 20 /\ m[s].heal + healed \in Int
    <3>1. CASE m[s].hull < 20
      <4>1. clampi(a[s].heal, 0, 20 - m[s].hull) \in 0 .. (20 - m[s].hull)
        BY <2>1, <2>2, <3>1 DEF clampi
      <4>2. healed = clampi(a[s].heal, 0, 20 - m[s].hull)
        BY <3>1 DEF start_hull
      <4> HIDE DEF healed
      <4>3. \A h \in -100 .. 20 : \A x \in 0 .. (20 - h) : x \in Int /\ h + x \in -100 .. 20
        OBVIOUS
      <4>4. healed \in 0 .. (20 - m[s].hull) /\ m[s].hull \in -100 .. 20
        BY ONLY <2>1, <4>1, <4>2
      <4>5. healed \in Int /\ m[s].hull + healed \in -100 .. 20
        BY ONLY <4>3, <4>4
      <4>6. m[s].heal \in Int
        BY ONLY <2>1
      <4>7. QED
        BY ONLY <4>5, <4>6
    <3>4. CASE ~(m[s].hull < 20)
      BY <2>1, <3>4 DEF start_hull
    <3>2. healed \in Int /\ m[s].hull + healed \in -100 .. 20
      BY <3>1, <3>4
    <3>3. QED
      BY <2>1, <3>2
  <2>4. moved \in 0 .. 6 /\ moved <= m[s].energy
    <3>1. moved \in 0 .. m[s].energy
      BY <2>1, <2>2 DEF clampi
    <3>2. QED
      BY <2>1, <3>1
  <2>5. clampi(m[s].energy - moved + a[s].energy, 0, 6) \in 0 .. 6
    BY <2>1, <2>2, <2>4, Clamps
  <2>6. armor \in 0 .. 12
    <3>1. clampi(m[s].armor + a[s].armor, 0, 12) \in 0 .. 12
      BY <2>1, <2>2, Clamps
    <3> HIDE DEF moved
    <3>2. clampi(clampi(m[s].armor + a[s].armor, 0, 12) + moved, 0, 12) \in 0 .. 12
      BY <2>4, <3>1, Clamps
    <3>3. QED
      BY <3>2 DEF DW_ARMOR_MAX
  <2>7. clampi(m[s].next_e + a[s].nexte - a[s].nextl, -20, 20) \in -20 .. 20
    BY <2>1, <2>2, Clamps
  <2>8. vault \in -100 .. 99
    <3>1. m[s].vault + a[s].vault - a[s].spend \in Int
      BY <2>1, <2>2
    <3>2. QED
      BY <3>1, Clamps
  <2> HIDE DEF healed, moved, vault
  <2>9. (IF a[s].debtfree > 0 /\ vault < 0 THEN 0 ELSE vault) \in -100 .. 99
    BY <2>8
  <2>10. (IF a[s].cleanse > 0 THEN 0 ELSE m[s].burn_left) \in Int
    BY <2>1
  <2> DEFINE energy == clampi(m[s].energy - moved + a[s].energy, 0, EnergyCap)
             next_e == clampi(m[s].next_e + a[s].nexte - a[s].nextl, -20, 20)
             credits == IF a[s].debtfree > 0 /\ vault < 0 THEN 0 ELSE vault
             left == IF a[s].cleanse > 0 THEN 0 ELSE m[s].burn_left
  <2>11. energy \in 0 .. 6 /\ next_e \in -20 .. 20 /\ credits \in -100 .. 99 /\ left \in Int
    BY <2>5, <2>7, <2>9, <2>10 DEF EnergyCap
  <2>12. self = [m[s] EXCEPT !.hull = @ + healed, !.heal = @ + healed, !.armor = armor, !.energy = energy,
                             !.next_e = next_e, !.vault = credits, !.burn_left = left]
    OBVIOUS
  <2> HIDE DEF armor, energy, next_e, credits, left
  <2>13. QED
    BY <2>1, <2>3, <2>6, <2>11, <2>12, HullIn, HealIn, ArmorIn, EnergyIn, NextIn, VaultIn, BurnLeftIn
<1>3. other \in MeterType
  <2>1. /\ m[1 - s] \in MeterType /\ m[1 - s].energy \in 0 .. 6 /\ m[1 - s].vault \in -100 .. 99
        /\ m[1 - s].next_e \in -20 .. 20
    BY <1>1, MeterFields
  <2>2. a[s].oenergy \in Nat /\ a[s].onextl \in Nat /\ a[s].ospend \in Nat
    BY RidingFields
  <2>3. /\ clampi(m[1 - s].energy - a[s].oenergy, 0, 6) \in 0 .. 6
        /\ clampi(m[1 - s].next_e - a[s].onextl, -20, 20) \in -20 .. 20
        /\ clampi(m[1 - s].vault - a[s].ospend, -100, 99) \in -100 .. 99
    <3>1. /\ m[1 - s].energy - a[s].oenergy \in Int /\ m[1 - s].next_e - a[s].onextl \in Int
          /\ m[1 - s].vault - a[s].ospend \in Int
      BY <2>1, <2>2
    <3>2. QED
      BY <3>1, Clamps
  <2>4. QED
    BY <2>1, <2>3, EnergyIn, NextIn, VaultIn DEF EnergyCap
<1>4. Settle(m, a, s) = [t \in Seats |-> IF t = s THEN self ELSE other]
  BY DEF Settle
<1> HIDE DEF self, other
<1>5. QED
  BY <1>2, <1>3, <1>4 DEF Metered

LEMMA GainIn ==
    ASSUME NEW x \in Int, NEW y \in Int
    PROVE  Gain(x, y) \in Nat /\ x + Gain(x, y) \in {x, y}
BY DEF Gain

LEMMA EqualizeIn ==
    ASSUME NEW m, Metered(m), NEW a
    PROVE  Metered(Equalize(m, a))
<1> DEFINE avg == Half(m[0].hull + m[1].hull + 1)
           After(s) == [m[s] EXCEPT !.hull = clampi(avg, -100, start_hull),
                                    !.dmg_to = @ + Gain(avg, m[s].hull),
                                    !.heal = @ + Gain(m[s].hull, avg)]
<1>1. avg \in Int
  <2>1. m[0].hull + m[1].hull + 1 \in Int
    <3>1. m[0].hull \in Int /\ m[1].hull \in Int
      BY MeterFields, 0 \in Seats, 1 \in Seats DEF Seats
    <3>2. QED
      BY <3>1
  <2>2. QED
    BY <2>1 DEF Half
<1>2. ASSUME NEW s \in Seats
      PROVE  After(s) \in MeterType
  <2>1. m[s] \in MeterType /\ m[s].hull \in Int /\ m[s].dmg_to \in Int /\ m[s].heal \in Int
    BY MeterFields
  <2> HIDE DEF avg
  <2>2. m[s].dmg_to + Gain(avg, m[s].hull) \in Int /\ m[s].heal + Gain(m[s].hull, avg) \in Int
    <3>1. Gain(avg, m[s].hull) \in Nat /\ Gain(m[s].hull, avg) \in Nat
      BY <1>1, <2>1, GainIn
    <3>2. QED
      BY <2>1, <3>1
  <2>3. clampi(avg, -100, 20) \in -100 .. 20
    BY <1>1, Clamps
  <2>4. QED
    BY <2>1, <2>2, <2>3, HullIn, DmgToIn, HealIn DEF start_hull
<1>3. Equalize(m, a) = Both(After(0), After(1)) \/ Equalize(m, a) = m
  BY DEF Equalize
<1> HIDE DEF After
<1>4. QED
  BY <1>2, <1>3, BothIn DEF Metered, Seats

LEMMA RewindIn ==
    ASSUME NEW m, Metered(m), NEW a
    PROVE  Metered(Rewind(m, a))
<1> DEFINE Back(s) == IF a[s].chrono > 0 THEN Gain(m[s].hull, m[s].hull_prev) ELSE 0
           After(s) == [m[s] EXCEPT !.hull = @ + Back(s), !.heal = @ + Back(s)]
<1>1. ASSUME NEW s \in Seats
      PROVE  After(s) \in MeterType
  <2>1. m[s] \in MeterType /\ m[s].hull \in -100 .. 20 /\ m[s].hull_prev \in -100 .. 20 /\ m[s].heal \in Int
    BY MeterFields
  <2>2. Back(s) \in Int /\ m[s].hull + Back(s) \in -100 .. 20
    <3>1. /\ Gain(m[s].hull, m[s].hull_prev) \in Nat
          /\ m[s].hull + Gain(m[s].hull, m[s].hull_prev) \in {m[s].hull, m[s].hull_prev}
      <4>1. m[s].hull \in Int /\ m[s].hull_prev \in Int
        BY <2>1
      <4>2. QED
        BY <4>1, GainIn
    <3>2. Back(s) \in {0, Gain(m[s].hull, m[s].hull_prev)}
      OBVIOUS
    <3> HIDE DEF Back
    <3>3. QED
      BY <2>1, <3>1, <3>2
  <2> HIDE DEF Back
  <2>3. m[s].heal + Back(s) \in Int
    BY <2>1, <2>2
  <2>4. QED
    BY <2>1, <2>2, <2>3, HullIn, HealIn
<1>2. Rewind(m, a) = Both(After(0), After(1))
  BY DEF Rewind
<1> HIDE DEF After
<1>3. QED
  BY <1>1, <1>2, BothIn DEF Metered, Seats

LEMMA RescueIn ==
    ASSUME NEW m, Metered(m), NEW x
    PROVE  Metered(Rescue(m, x))
<1> DEFINE After(s) == IF x.life[s] /\ m[s].hull <= 0
                       THEN [m[s] EXCEPT !.hull = 1, !.saved = TRUE] ELSE m[s]
<1>1. ASSUME NEW s \in Seats
      PROVE  After(s) \in MeterType
  <2>1. m[s] \in MeterType /\ 1 \in -100 .. 20 /\ TRUE \in BOOLEAN
    BY MeterFields
  <2>2. [m[s] EXCEPT !.hull = 1, !.saved = TRUE] \in MeterType
    BY <2>1, HullIn, SavedIn
  <2>3. QED
    BY <2>1, <2>2
<1>2. Rescue(m, x) = Both(After(0), After(1))
  BY DEF Rescue
<1> HIDE DEF After
<1>3. QED
  BY <1>1, <1>2, BothIn DEF Metered, Seats

LEMMA TickIn ==
    ASSUME NEW m, Metered(m)
    PROVE  Metered(Tick(m))
<1> DEFINE room(s) == Gain(m[s].hull, start_hull)
           regen(s) == IF m[s].regen_left > 0 THEN clampi(m[s].regen_amt, 0, room(s)) ELSE 0
           burn(s) == IF m[s].burn_left > 0 THEN m[s].burn_amt ELSE 0
           After(s) == [m[s] EXCEPT !.hull = clampi(@ + regen(s) - burn(s), -100, start_hull),
                                    !.heal = @ + regen(s), !.dmg_to = @ + burn(s),
                                    !.regen_left = Dec(@), !.burn_left = Dec(@), !.hidden = Dec(@)]
<1>1. ASSUME NEW s \in Seats
      PROVE  After(s) \in MeterType
  <2>1. /\ m[s] \in MeterType /\ m[s].hull \in Int /\ m[s].heal \in Int /\ m[s].dmg_to \in Int
        /\ m[s].regen_left \in Int /\ m[s].burn_left \in Int /\ m[s].hidden \in Int
        /\ m[s].regen_amt \in Int /\ m[s].burn_amt \in Int
    BY MeterFields
  <2>2. regen(s) \in Int /\ burn(s) \in Int
    BY <2>1 DEF Gain, clampi, start_hull
  <2> HIDE DEF regen, burn, room
  <2>3. /\ m[s].heal + regen(s) \in Int /\ m[s].dmg_to + burn(s) \in Int /\ m[s].hull + regen(s) - burn(s) \in Int
        /\ Dec(m[s].regen_left) \in Int /\ Dec(m[s].burn_left) \in Int /\ Dec(m[s].hidden) \in Int
    BY <2>1, <2>2 DEF Dec
  <2>4. clampi(m[s].hull + regen(s) - burn(s), -100, 20) \in -100 .. 20
    BY <2>3, Clamps
  <2>5. QED
    BY <2>1, <2>3, <2>4, HullIn, HealIn, DmgToIn, RegenLeftIn, BurnLeftIn, HiddenIn DEF start_hull
<1>2. Tick(m) = Both(After(0), After(1))
  BY DEF Tick
<1> HIDE DEF After
<1>3. QED
  BY <1>1, <1>2, BothIn DEF Metered, Seats

LEMMA AfflictIn ==
    ASSUME NEW m, Metered(m), NEW a, Riding(a)
    PROVE  Metered(Afflict(m, a))
<1> DEFINE After(s) ==
             [m[s] EXCEPT !.burn_amt = IF a[1 - s].burn > 0 THEN a[1 - s].burn \div 16 ELSE @,
                          !.burn_left = IF a[1 - s].burn > 0 THEN a[1 - s].burn % 16 ELSE @,
                          !.regen_amt = IF a[s].regen > 0 THEN a[s].regen \div 16 ELSE @,
                          !.regen_left = IF a[s].regen > 0 THEN a[s].regen % 16 ELSE @,
                          !.hidden = IF a[s].blind > 0 THEN a[s].blind ELSE @]
<1>1. ASSUME NEW s \in Seats
      PROVE  After(s) \in MeterType
  <2>1. /\ m[s] \in MeterType /\ m[s].regen_left \in Int /\ m[s].burn_left \in Int /\ m[s].hidden \in Int
        /\ m[s].regen_amt \in Int /\ m[s].burn_amt \in Int
    BY MeterFields
  <2>2. a[1 - s].burn \in Nat /\ a[s].regen \in Nat /\ a[s].blind \in Nat
    BY RidingFields DEF Seats
  <2>3. /\ (IF a[1 - s].burn > 0 THEN a[1 - s].burn \div 16 ELSE m[s].burn_amt) \in Int
        /\ (IF a[1 - s].burn > 0 THEN a[1 - s].burn % 16 ELSE m[s].burn_left) \in Int
        /\ (IF a[s].regen > 0 THEN a[s].regen \div 16 ELSE m[s].regen_amt) \in Int
        /\ (IF a[s].regen > 0 THEN a[s].regen % 16 ELSE m[s].regen_left) \in Int
        /\ (IF a[s].blind > 0 THEN a[s].blind ELSE m[s].hidden) \in Int
    BY <2>1, <2>2
  <2>4. QED
    BY <2>1, <2>3, BurnAmtIn, BurnLeftIn, RegenAmtIn, RegenLeftIn, HiddenIn
<1>2. Afflict(m, a) = Both(After(0), After(1))
  BY DEF Afflict
<1> HIDE DEF After
<1>3. QED
  BY <1>1, <1>2, BothIn DEF Metered, Seats

\* The cards that are resolved, the meters that result and the riders applied on the way
LEMMA ResolutionIn ==
    ASSUME NEW m, Metered(m), NEW decl, Played(decl), Affordable(m, decl), round \in Int
    PROVE  Metered(Resolution(m, decl).meters) /\ Riding(Resolution(m, decl).riders)
<1> DEFINE paid == Paid(m, decl)
           eff == Effective(paid, Substituted(m, decl))
           x == Exchange(paid, eff)
           hit == Attacked(paid, x)
           a == Riders(Aftermath, hit, eff, x.dealt)
<1>1. Metered(paid)
  BY PaidIn
<1>2. Played(eff)
  BY SubstitutedIn, EffectiveIn
<1>3. Resolution(m, decl) = Ended(hit, eff, x, a)
  BY DEF Resolution, Opened, Joined, Fought, Followed
<1> HIDE DEF paid, eff
<1>4. Dealing(x.dealt)
  BY <1>1, <1>2, ExchangeIn
<1> HIDE DEF x
<1>5. Metered(hit)
  BY <1>1, <1>4, AttackedIn DEF Exchanged
<1> HIDE DEF hit
<1>6. Riding(a)
  BY <1>2, <1>4, <1>5, RidersIn DEF Riding
<1> HIDE DEF a
<1> DEFINE m1 == Hurt(hit, a)
           m2 == Settle(m1, a, 0)
           m3 == Settle(m2, a, 1)
           m4 == Rewind(Equalize(m3, a), a)
           m5 == Rescue(Tick(Rescue(m4, x)), x)
<1>7. Metered(m1)
  BY <1>5, <1>6, HurtIn
<1> HIDE DEF m1
<1>8. Metered(m2)
  BY <1>6, <1>7, SettleIn DEF Seats
<1> HIDE DEF m2
<1>9. Metered(m3)
  BY <1>6, <1>8, SettleIn DEF Seats
<1> HIDE DEF m3
<1>10. Metered(m4)
  BY <1>9, EqualizeIn, RewindIn
<1> HIDE DEF m4
<1>11. Metered(m5)
  BY <1>10, TickIn, RescueIn
<1> HIDE DEF m5
<1>12. Metered(Afflict(m5, a))
  BY <1>6, <1>11, AfflictIn
<1>13. Ended(hit, eff, x, a) = [meters |-> Afflict(m5, a), riders |-> a, eff |-> eff]
  BY DEF Ended, m1, m2, m3, m4, m5
<1>14. QED
  BY <1>3, <1>6, <1>12, <1>13

-----------------------------------------------------------------------------
(***************************************************************************)
(* The match goes on as long as both seats can.                            *)
(***************************************************************************)

\* With the invariant of the outcome, that of the types is inductive: a round begins only
\* before the last one, and nobody is bankrupt or down when it does.
MatchInv == TypeOK /\ OutcomeFits

LEMMA Started == Init => MatchInv
<1> SUFFICES ASSUME Init
             PROVE  MatchInv
  OBVIOUS
<1>1. NewMeters \in MeterType
  BY DEF NewMeters, MeterType, start_hull, EnergyCap, DW_ARMOR_MAX, start_energy, start_vault
<1>2. meters \in [Seats -> MeterType]
  BY <1>1 DEF Init
<1>3. \A s \in Seats : meters[s].hull > 0 /\ ~bankrupt(meters[s].vault)
  BY DEF Init, NewMeters, start_hull, start_vault, bankrupt
<1>4. 0 < MaxRounds /\ MaxRounds \in Nat
  BY RoundsOK
<1>5. TypeOK
  BY <1>2, <1>4 DEF Init, TypeOK
<1>6. OutcomeFits
  BY <1>3, <1>4 DEF Init, OutcomeFits
<1>7. QED
  BY <1>5, <1>6 DEF MatchInv

LEMMA BeginRoundStep ==
    ASSUME MatchInv, BeginRound
    PROVE  MatchInv'
<1>1. PICK rolls \in [Seats -> Rolls] :
           meters' = [s \in Seats |->
               [meters[s] EXCEPT
                   !.hull_prev = meters[s].hull_start, !.hull_start = meters[s].hull,
                   !.energy = clampi(round_start_energy(@) + meters[s].next_e, 0, EnergyCap),
                   !.next_e = 0,
                   !.vault = clampi(round_start_vault(@), -100, 99),
                   !.roll = rolls[s], !.dmg_to = 0, !.heal = 0, !.saved = FALSE]]
  BY DEF BeginRound
<1>2. Metered(meters) /\ round \in 0 .. MaxRounds /\ round < MaxRounds /\ MaxRounds \in Nat
  BY RoundsOK DEF MatchInv, TypeOK, OutcomeFits, BeginRound, Metered
<1>3. ASSUME NEW s \in Seats
      PROVE  /\ meters'[s] \in MeterType /\ meters'[s].hull = meters[s].hull
             /\ meters'[s].vault = clampi(round_start_vault(meters[s].vault), -100, 99)
  <2>1. /\ meters[s] \in MeterType /\ meters[s].hull_start \in -100 .. 20 /\ meters[s].hull \in -100 .. 20
        /\ meters[s].energy \in Int /\ meters[s].next_e \in -20 .. 20 /\ meters[s].vault \in -100 .. 99
    BY <1>2, MeterFields
  <2>2. clampi(round_start_energy(meters[s].energy) + meters[s].next_e, 0, 6) \in 0 .. 6
    <3>1. round_start_energy(meters[s].energy) \in Int
      BY <2>1 DEF round_start_energy, energy_cap, EnergyCap
    <3>2. round_start_energy(meters[s].energy) + meters[s].next_e \in Int
      BY <2>1, <3>1
    <3>3. QED
      BY <3>2, Clamps
  <2>3. clampi(round_start_vault(meters[s].vault), -100, 99) \in -100 .. 99
    <3>1. round_start_vault(meters[s].vault) \in Int
      BY <2>1 DEF round_start_vault
    <3>2. QED
      BY <3>1, Clamps
  <2>4. rolls[s] \in 0 .. 99 /\ 0 \in Int /\ 0 \in -20 .. 20 /\ FALSE \in BOOLEAN
    <3>1. rolls[s] \in Rolls
      BY <1>1
    <3>2. rolls[s] \in 0 .. 99
      BY <3>1, RollsOK
    <3>3. QED
      BY <3>2
  <2> DEFINE energy == clampi(round_start_energy(meters[s].energy) + meters[s].next_e, 0, EnergyCap)
             vault == clampi(round_start_vault(meters[s].vault), -100, 99)
  <2>5. meters'[s] = [meters[s] EXCEPT
                         !.hull_prev = meters[s].hull_start, !.hull_start = meters[s].hull,
                         !.energy = energy, !.next_e = 0, !.vault = vault,
                         !.roll = rolls[s], !.dmg_to = 0, !.heal = 0, !.saved = FALSE]
    BY <1>1
  <2>6. energy \in 0 .. 6 /\ vault \in -100 .. 99
    BY <2>2, <2>3 DEF EnergyCap
  <2>7. meters'[s].hull = meters[s].hull /\ meters'[s].vault = vault
    BY <2>1, <2>5 DEF MeterType
  <2> HIDE DEF energy, vault
  <2>8. meters'[s] \in MeterType
    BY <2>1, <2>4, <2>5, <2>6, HullPrevIn, HullStartIn, EnergyIn, NextIn, VaultIn, RollIn, DmgToIn, HealIn, SavedIn
  <2>9. QED
    BY <2>7, <2>8 DEF vault
<1>4. meters' \in [Seats -> MeterType]
  BY <1>1, <1>3
<1>5. \A s \in Seats : meters'[s].hull > 0 /\ ~bankrupt(meters'[s].vault)
  <2>1. ASSUME NEW s \in Seats
        PROVE  meters'[s].hull > 0 /\ ~bankrupt(meters'[s].vault)
    <3>1. meters[s].hull > 0 /\ ~bankrupt(meters[s].vault) /\ meters[s].vault \in -100 .. 99
      BY <1>2, MeterFields DEF MatchInv, OutcomeFits, BeginRound
    <3>2. ~bankrupt(clampi(round_start_vault(meters[s].vault), -100, 99))
      BY <3>1 DEF bankrupt, clampi, round_start_vault
    <3>3. QED
      BY <1>3, <3>1, <3>2
  <2>2. QED
    BY <2>1
<1>6. TypeOK'
  <2>1. /\ phase' = "play" /\ round' \in 0 .. MaxRounds /\ deck' \in Decks
        /\ lock_mask' \in [Seats -> SUBSET Slots] /\ next_lock' \in [Seats -> SUBSET Slots]
        /\ lock_slot' = [s \in Seats |-> Open] /\ result' = result /\ reason' = reason
    <3>1. round' = round + 1 /\ round' \in 0 .. MaxRounds
      <4>1. round' = round + 1
        BY DEF BeginRound
      <4>2. QED
        BY <1>2, <4>1
    <3>2. QED
      BY <3>1 DEF MatchInv, TypeOK, BeginRound
  <2>2. Open \notin Slots
    BY HandOK DEF Open, Slots
  <2>3. QED
    BY <1>4, <2>1, <2>2 DEF MatchInv, TypeOK
<1>7. OutcomeFits'
  BY <1>5 DEF MatchInv, OutcomeFits, BeginRound
<1>8. QED
  BY <1>6, <1>7 DEF MatchInv

LEMMA LockStep ==
    ASSUME MatchInv, NEW s \in Seats, NEW slot \in Slots \cup {Pass}, Lock(s, slot)
    PROVE  MatchInv'
<1>1. OutcomeFits'
  BY DEF MatchInv, OutcomeFits, Lock
<1>2. lock_slot' \in [Seats -> Slots \cup {Open, Pass}]
  BY DEF MatchInv, TypeOK, Lock
<1>3. ASSUME NEW t \in Seats, lock_slot'[t] \in Slots
      PROVE  is_legal_play(Declared(t)', meters[t].energy, meters[t].vault)
  <2>1. CASE t = s
    <3>1. lock_slot'[s] = slot /\ slot \in Slots /\ piles' = piles /\ deck' = deck
      BY <1>3, <2>1 DEF Lock, MatchInv, TypeOK
    <3>2. Declared(s)' = Card(piles[s].hand[slot])
      BY <3>1 DEF Declared, Card
    <3>3. is_legal_play(Card(piles[s].hand[slot]), meters[s].energy, meters[s].vault)
      BY <3>1 DEF Lock
    <3>4. QED
      BY <2>1, <3>2, <3>3
  <2>2. CASE t # s
    <3>1. lock_slot'[t] = lock_slot[t] /\ piles' = piles /\ deck' = deck /\ phase = "play"
      BY <2>2 DEF Lock, MatchInv, TypeOK
    <3>2. Declared(t)' = Declared(t)
      BY <3>1 DEF Declared, Card
    <3>3. QED
      BY <1>3, <3>1, <3>2 DEF MatchInv, TypeOK
  <2>3. QED
    BY <2>1, <2>2
<1>4. TypeOK'
  BY <1>2, <1>3 DEF MatchInv, TypeOK, Lock
<1>5. QED
  BY <1>1, <1>4 DEF MatchInv

LEMMA ForfeitStep ==
    ASSUME MatchInv, NEW s \in Seats, Forfeit(s)
    PROVE  MatchInv'
<1>1. TypeOK'
  BY DEF MatchInv, TypeOK, Forfeit, table, Declared, Card
<1>2. OutcomeFits'
  BY DEF MatchInv, OutcomeFits, Forfeit, Seats
<1>3. QED
  BY <1>1, <1>2 DEF MatchInv

\* What the end conditions make of the meters of a resolved round.
LEMMA Decided ==
    ASSUME MatchInv, phase = "play", NEW m, Metered(m), Decide(m), meters' = m, round' = round
    PROVE  /\ OutcomeFits' /\ phase' \in {"idle", "over"}
           /\ result' \in [Seats -> {"none", "win", "loss", "draw"}]
           /\ reason' \in {"none", "hull", "bankrupt", "rounds", "forfeit"}
<1>1. /\ m[0].hull \in Int /\ m[1].hull \in Int /\ m[0].vault \in Int /\ m[1].vault \in Int
      /\ round \in 0 .. MaxRounds /\ MaxRounds \in Nat
  <2>1. 0 \in Seats /\ 1 \in Seats
    BY DEF Seats
  <2>2. m[0].hull \in -100 .. 20 /\ m[1].hull \in -100 .. 20 /\ m[0].vault \in -100 .. 99 /\ m[1].vault \in -100 .. 99
    BY <2>1, MeterFields
  <2>3. QED
    BY <2>2, RoundsOK DEF MatchInv, TypeOK
<1>2. (match_decided(m[0].hull, m[1].hull) \/ \E s \in Seats : bankrupt(m[s].vault)) <=> (Bust(m, 0) \/ Bust(m, 1))
  BY <1>1 DEF match_decided, Bust, Seats
<1>3. CASE Bust(m, 0) \/ Bust(m, 1)
  <2>1. /\ phase' = "over" /\ reason' \in {"hull", "bankrupt"}
        /\ result' = [s \in Seats |-> CASE Bust(m, 0) /\ Bust(m, 1) -> "draw"
                                        [] Bust(m, s) /\ ~Bust(m, 1 - s) -> "loss"
                                        [] OTHER -> "win"]
    BY <1>2, <1>3 DEF Decide
  <2> DEFINE r(b0, b1) == IF b0 /\ b1 THEN "draw" ELSE IF b0 THEN "loss" ELSE "win"
  <2>2. result'[0] = r(Bust(m, 0), Bust(m, 1)) /\ result'[1] = r(Bust(m, 1), Bust(m, 0))
    BY <2>1 DEF Seats
  <2>3. /\ result' \in [Seats -> {"none", "win", "loss", "draw"}]
        /\ \A s \in Seats : result'[s] = CASE result'[1 - s] = "win" -> "loss"
                                           [] result'[1 - s] = "loss" -> "win"
                                           [] OTHER -> "draw"
        /\ \A s \in Seats : result'[s] = "win" => ~Bust(m, s)
    BY <1>3, <2>1, <2>2 DEF Seats
  <2>4. QED
    BY <2>1, <2>3 DEF OutcomeFits, Bust
<1>4. CASE ~Bust(m, 0) /\ ~Bust(m, 1) /\ round >= MaxRounds
  <2> DEFINE w == round_winner(m[0].hull, m[1].hull, m[0].vault, m[1].vault)
  <2>1. /\ phase' = "over" /\ reason' = "rounds"
        /\ result' = [s \in Seats |-> CASE w = Draw -> "draw" [] w = s -> "win" [] OTHER -> "loss"]
    BY <1>2, <1>4 DEF Decide
  <2>2. w \in {0, 1, Draw} /\ Draw \notin {0, 1}
    BY <1>1 DEF round_winner, round_winner_by_hull, Draw
  <2> HIDE DEF w
  <2>3. /\ result' \in [Seats -> {"none", "win", "loss", "draw"}]
        /\ \A s \in Seats : result'[s] = CASE result'[1 - s] = "win" -> "loss"
                                           [] result'[1 - s] = "loss" -> "win"
                                           [] OTHER -> "draw"
    BY <2>1, <2>2 DEF Seats
  <2>4. \A s \in Seats : ~Bust(m, s)
    BY <1>4 DEF Seats
  <2>5. QED
    BY <1>1, <1>4, <2>1, <2>3, <2>4 DEF OutcomeFits, Bust
<1>5. CASE ~Bust(m, 0) /\ ~Bust(m, 1) /\ ~(round >= MaxRounds)
  <2>1. phase' = "idle" /\ UNCHANGED <<result, reason>>
    BY <1>2, <1>5 DEF Decide
  <2>2. \A s \in Seats : m[s].hull > 0 /\ ~bankrupt(m[s].vault)
    BY <1>1, <1>5 DEF Bust, Seats
  <2>3. QED
    BY <1>1, <1>5, <2>1, <2>2 DEF OutcomeFits, MatchInv, TypeOK
<1>6. QED
  BY <1>3, <1>4, <1>5

\* Both cards declared for a resolution may be played.
LEMMA DeclaredPlays ==
    ASSUME MatchInv, phase = "play"
    PROVE  Played(LastCards) /\ Affordable(meters, LastCards)
<1>1. ASSUME NEW s \in Seats
      PROVE  /\ LastCards[s] \in Plays
             /\ LastCards[s] >= 0 => is_legal_play(LastCards[s], meters[s].energy, meters[s].vault)
  <2>1. LastCards[s] = Declared(s)
    BY DEF LastCards, Both, Seats
  <2>2. CASE lock_slot[s] \in Slots
    BY <2>1, <2>2 DEF MatchInv, TypeOK, is_legal_play, Plays
  <2>3. CASE lock_slot[s] \notin Slots
    BY <2>1, <2>3 DEF Declared, Plays
  <2>4. QED
    BY <2>2, <2>3
<1>2. Played(LastCards) /\ Affordable(meters, LastCards)
  BY <1>1 DEF Played, Affordable, LastCards, Both
<1>3. QED
  BY <1>2

LEMMA ResolveStep ==
    ASSUME MatchInv, Resolve
    PROVE  MatchInv'
<1> DEFINE r == Resolution(meters, LastCards)
<1>1. /\ phase = "play" /\ meters' = r.meters /\ Decide(r.meters)
      /\ UNCHANGED <<deck, round, lock_mask, lock_slot>>
      /\ \E l0 \in Disabled(next_lock[0], r.riders[1].lock), l1 \in Disabled(next_lock[1], r.riders[0].lock) :
             next_lock' = Both(l0, l1)
  BY DEF Resolve
<1>2. Metered(meters) /\ round \in Int
  BY DEF MatchInv, TypeOK, Metered
<1>4. Played(LastCards) /\ Affordable(meters, LastCards)
  BY <1>1, DeclaredPlays
<1>5. Metered(r.meters)
  BY <1>2, <1>4, ResolutionIn
<1> HIDE DEF r
<1>6. /\ OutcomeFits' /\ phase' \in {"idle", "over"}
      /\ result' \in [Seats -> {"none", "win", "loss", "draw"}]
      /\ reason' \in {"none", "hull", "bankrupt", "rounds", "forfeit"}
  BY <1>1, <1>5, Decided
<1>7. next_lock' \in [Seats -> SUBSET Slots]
  <2>1. PICK l0 \in Disabled(next_lock[0], r.riders[1].lock), l1 \in Disabled(next_lock[1], r.riders[0].lock) :
             next_lock' = Both(l0, l1)
    BY <1>1
  <2>2. next_lock[0] \subseteq Slots /\ next_lock[1] \subseteq Slots
    BY DEF MatchInv, TypeOK, Seats
  <2>3. l0 \subseteq Slots /\ l1 \subseteq Slots
    BY <2>2 DEF Disabled
  <2>4. QED
    BY <2>1, <2>3, BothIn
<1>8. TypeOK'
  <2>1. meters' \in [Seats -> MeterType]
    BY <1>1, <1>5 DEF Metered
  <2>2. QED
    BY <1>1, <1>6, <1>7, <2>1 DEF MatchInv, TypeOK
<1>9. QED
  BY <1>6, <1>8 DEF MatchInv

LEMMA MatchStep == MatchInv /\ [Next]_vars => MatchInv'
<1> SUFFICES ASSUME MatchInv, [Next]_vars
             PROVE  MatchInv'
  OBVIOUS
<1>1. CASE BeginRound
  BY <1>1, BeginRoundStep
<1>2. CASE \E s \in Seats, slot \in Slots \cup {Pass} : Lock(s, slot)
  BY <1>2, LockStep
<1>3. CASE Resolve
  BY <1>3, ResolveStep
<1>4. CASE \E s \in Seats : Forfeit(s)
  BY <1>4, ForfeitStep
<1>5. CASE UNCHANGED vars
  BY <1>5 DEF vars, table, MatchInv, TypeOK, OutcomeFits, Declared, Card, Bust
<1>6. QED
  BY <1>1, <1>2, <1>3, <1>4, <1>5 DEF Next

\* The invariant of a match of match.c: its types and its outcomes are inductive together.
THEOREM MatchSound == Spec => []MatchInv
<1>1. Init => MatchInv
  BY Started
<1>2. MatchInv /\ [Next]_vars => MatchInv'
  BY MatchStep
<1>3. QED
  BY <1>1, <1>2, PTL DEF Spec

\* The ranges of the meters and the price of a locked card hold for every match.
THEOREM MetersInRange == Spec => []TypeOK
<1>1. MatchInv => TypeOK
  BY DEF MatchInv
<1>2. QED
  BY <1>1, MatchSound, PTL

\* A match ends in the round in which a seat fails, with results that fit each other.
THEOREM OutcomesFit == Spec => []OutcomeFits
<1>1. MatchInv => OutcomeFits
  BY DEF MatchInv
<1>2. QED
  BY <1>1, MatchSound, PTL

-----------------------------------------------------------------------------
(***************************************************************************)
(* Lifeline is the last word on the hull.                                  *)
(***************************************************************************)

\* A word of a steady channel has no condition and a constant amount.
LEMMA SteadyAmount ==
    ASSUME NEW x, Steady(x), fx_ch(x) \in {3, 5}, NEW c
    PROVE  fx_amount(x, c) = fx_aa(x) /\ fx_aa(x) \in 1 .. 99
<1>1. x \in Nat /\ x % 10000000 \in 1 .. 99
  BY DEF Steady
<1>2. fx_nn(x) = 0 /\ fx_m(x) = 0 /\ fx_aa(x) = x % 10000000 /\ x # 0
  BY <1>1 DEF fx_nn, fx_m, fx_aa
<1>3. fx_cond_ok(x, c)
  BY <1>2 DEF fx_cond_ok
<1>4. fx_scale(x, c) = fx_aa(x)
  BY <1>2 DEF fx_scale
<1>5. QED
  BY <1>1, <1>2, <1>3, <1>4 DEF fx_amount

LEMMA LifelineRides ==
    ASSUME NEW m, Metered(m), NEW e, Played(e), NEW s \in Seats, NEW dealt \in Int, NEW taken \in Int, round \in Int,
           HasChannel(e[s], 5)
    PROVE  Rider(5, m, e, s, dealt, taken) > 0
<1> DEFINE c == Context(m, e, s, dealt, taken)
           a == card_fx_a(e[s])
           b == card_fx_b(e[s])
<1>1. e[s] \in CardIds /\ ~(e[s] < 0)
  BY DEF HasChannel, Played, Plays, CardIds
<1>2. Steady(a) /\ Steady(b) /\ (fx_ch(a) = 5 \/ fx_ch(b) = 5)
  BY <1>1, WordsIn DEF HasChannel
<1>3. Numeric(c)
  BY ContextIn
<1>4. Rider(5, m, e, s, dealt, taken) = Adds(a, 5, c) + Adds(b, 5, c)
  BY <1>1 DEF Rider
<1> HIDE DEF a, b, c
<1>5. Adds(a, 5, c) \in Nat /\ Adds(b, 5, c) \in Nat
  BY <1>2, <1>3, AddsIn DEF Steady
<1>6. Adds(a, 5, c) > 0 \/ Adds(b, 5, c) > 0
  BY <1>2, SteadyAmount DEF Adds
<1>7. QED
  BY <1>4, <1>5, <1>6

LEMMA RescueLast ==
    ASSUME NEW m, Metered(m), NEW x, NEW a, NEW s \in Seats, x.life[s]
    PROVE  Afflict(Rescue(m, x), a)[s].hull > 0
<1>1. m[s] \in MeterType /\ m[s].hull \in Int
  BY MeterFields
<1>2. Rescue(m, x)[s] = IF x.life[s] /\ m[s].hull <= 0
                        THEN [m[s] EXCEPT !.hull = 1, !.saved = TRUE] ELSE m[s]
  BY DEF Rescue, Both, Seats
<1>3. Rescue(m, x)[s].hull > 0 /\ Rescue(m, x)[s] \in MeterType
  <2>1. CASE m[s].hull <= 0
    <3>1. Rescue(m, x)[s] = [m[s] EXCEPT !.hull = 1, !.saved = TRUE]
      BY <1>2, <2>1
    <3>2. [m[s] EXCEPT !.hull = 1, !.saved = TRUE].hull = 1
      BY <1>1 DEF MeterType
    <3>3. Rescue(m, x)[s] \in MeterType
      BY RescueIn DEF Metered
    <3>4. QED
      BY <3>1, <3>2, <3>3
  <2>2. CASE ~(m[s].hull <= 0)
    BY <1>1, <1>2, <2>2
  <2>3. QED
    BY <2>1, <2>2
<1> DEFINE p == Rescue(m, x)
<1>4. p[s] \in MeterType /\ p[s].hull > 0
  BY <1>3
<1> HIDE DEF p
<1>5. Afflict(p, a)[s].hull = p[s].hull
  BY <1>4 DEF Afflict, Both, Seats, MeterType
<1>6. QED
  BY <1>4, <1>5 DEF p

LEMMA LifelineLast ==
    ASSUME NEW m, Metered(m), NEW decl, Played(decl), Affordable(m, decl), round \in Int, NEW s \in Seats,
           HasChannel(Resolution(m, decl).eff[s], 5)
    PROVE  Resolution(m, decl).meters[s].hull > 0
<1> DEFINE paid == Paid(m, decl)
           eff == Effective(paid, Substituted(m, decl))
           d0 == Both(damage_dealt(eff[0], eff[1]), damage_dealt(eff[1], eff[0]))
           d1 == Unreflected(paid, eff, d0, 0)
           d2 == Unreflected(paid, eff, d1, 1)
           x == Exchange(paid, eff)
           hit == Attacked(paid, x)
           a == Riders(Aftermath, hit, eff, x.dealt)
           h == Riders(Attack, paid, eff, d2)
<1>1. Metered(paid)
  BY PaidIn
<1>2. Played(eff)
  BY SubstitutedIn, EffectiveIn
<1>3. Resolution(m, decl) = Ended(hit, eff, x, a)
  BY DEF Resolution, Opened, Joined, Fought, Followed
<1>4. HasChannel(eff[s], 5)
  BY <1>3 DEF Ended
<1> HIDE DEF paid, eff
<1>5. Dealing(d2)
  <2>1. Dealing(d0)
    BY <1>2, DamageIn, BothIn DEF Dealing, Played, Seats
  <2> HIDE DEF d0
  <2>2. Dealing(d1)
    BY <2>1, UnreflectedIn DEF Seats
  <2> HIDE DEF d1
  <2>3. QED
    BY <2>2, UnreflectedIn DEF Seats
<1>6. x.life[s] = (h[s].life > 0)
  BY DEF Exchange, Answered, Unanswered, Bypassed, Ridden, Both, Seats
<1> HIDE DEF d2
<1>7. h[s].life = Rider(5, paid, eff, s, d2[s], d2[1 - s])
  BY DEF Riders, RidersOf, Attack, Both, Seats
<1>8. x.life[s]
  <2>1. d2[s] \in Int /\ d2[1 - s] \in Int
    BY <1>5 DEF Dealing, Seats
  <2>2. QED
    BY <1>1, <1>2, <1>4, <1>6, <1>7, <2>1, LifelineRides
<1>9. Dealing(x.dealt)
  BY <1>1, <1>2, ExchangeIn
<1> HIDE DEF x, h
<1>10. Metered(hit)
  BY <1>1, <1>9, AttackedIn DEF Exchanged
<1> HIDE DEF hit
<1>11. Riding(a)
  BY <1>2, <1>9, <1>10, RidersIn DEF Riding
<1> HIDE DEF a
<1> DEFINE m2 == Settle(Settle(Hurt(hit, a), a, 0), a, 1)
           m4 == Tick(Rescue(Rewind(Equalize(m2, a), a), x))
<1>12. Metered(m2)
  BY <1>10, <1>11, HurtIn, SettleIn DEF Seats
<1> HIDE DEF m2
<1>13. Metered(m4)
  BY <1>12, EqualizeIn, RewindIn, RescueIn, TickIn
<1>14. Ended(hit, eff, x, a).meters = Afflict(Rescue(m4, x), a)
  BY DEF Ended, m2
<1> HIDE DEF m4
<1>15. QED
  BY <1>3, <1>8, <1>13, <1>14, RescueLast

\* Whatever hits a seat in the round its lifeline card resolves, it is alive afterwards.
THEOREM LifelineIsLast == Spec => LifelineHolds
<1> DEFINE A == Resolve => \A s \in Seats : HasChannel(Resolved.eff[s], 5) => meters'[s].hull > 0
<1>1. MatchInv /\ [Next]_vars => [A]_vars
  <2> SUFFICES ASSUME MatchInv, Resolve, NEW s \in Seats, HasChannel(Resolved.eff[s], 5)
               PROVE  meters'[s].hull > 0
    OBVIOUS
  <2>1. meters' = Resolved.meters
    BY DEF Resolve, Resolved
  <2>2. Metered(meters) /\ round \in Int
    BY DEF MatchInv, TypeOK, Metered
  <2>3. Played(LastCards) /\ Affordable(meters, LastCards)
    BY DeclaredPlays DEF Resolve
  <2>4. QED
    BY <2>1, <2>2, <2>3, LifelineLast DEF Resolved
<1>2. QED
  BY <1>1, MatchSound, PTL DEF Spec, LifelineHolds

-----------------------------------------------------------------------------
(***************************************************************************)
(* No copy of a card is lost or doubled.  While the slots in gap wait for  *)
(* a card, the other slots, the draw pile and the discard pile of a seat   *)
(* hold different cards, n in all with a full hand.                        *)
(***************************************************************************)

Held(p, gap) == {p.hand[i] : i \in Slots \ gap}
CardsOf(p, gap) == Held(p, gap) \cup p.draw \cup p.discard

Spread(p, gap, n) ==
    /\ p = [hand |-> p.hand, draw |-> p.draw, discard |-> p.discard]
    /\ \A i, j \in Slots \ gap : i # j => p.hand[i] # p.hand[j]
    /\ Held(p, gap) \cap p.draw = {} /\ Held(p, gap) \cap p.discard = {} /\ p.draw \cap p.discard = {}
    /\ IsFiniteSet(p.draw) /\ IsFiniteSet(p.discard)
    /\ Cardinality(p.draw) + Cardinality(p.discard) = n - DW_HAND + Cardinality(gap)

LEMMA ImageCardinality ==
    ASSUME NEW S, IsFiniteSet(S), NEW f, \A i, j \in S : i # j => f[i] # f[j]
    PROVE  IsFiniteSet({f[i] : i \in S}) /\ Cardinality({f[i] : i \in S}) = Cardinality(S)
<1> DEFINE T == {f[i] : i \in S}
           g == [i \in S |-> f[i]]
<1>1. g \in Bijection(S, T)
  BY DEF Bijection, Injection, Surjection, IsInjective
<1>2. ExistsBijection(S, T)
  BY <1>1 DEF ExistsBijection
<1>3. QED
  BY <1>2, FS_Bijection

LEMMA DisjointCardinality ==
    ASSUME NEW S, NEW T, IsFiniteSet(S), IsFiniteSet(T), S \cap T = {}
    PROVE  /\ IsFiniteSet(S \cup T) /\ Cardinality(S \cup T) = Cardinality(S) + Cardinality(T)
           /\ Cardinality(S) \in Nat /\ Cardinality(T) \in Nat
<1>1. Cardinality(S) \in Nat /\ Cardinality(T) \in Nat
  BY FS_CardinalityType
<1>2. /\ IsFiniteSet(S \cup T)
      /\ Cardinality(S \cup T) = Cardinality(S) + Cardinality(T) - Cardinality(S \cap T)
  BY FS_Union
<1>3. Cardinality(S \cap T) = 0
  BY FS_EmptySet
<1>4. QED
  BY <1>1, <1>2, <1>3

LEMMA SlotsFinite ==
    /\ IsFiniteSet(Slots) /\ Cardinality(Slots) = DW_HAND
    /\ \A slots \in SUBSET Slots : IsFiniteSet(slots) /\ Cardinality(slots) \in 0 .. DW_HAND
<1>1. IsFiniteSet(Slots) /\ Cardinality(Slots) = DW_HAND
  <2>1. 0 \in Int /\ DW_HAND - 1 \in Int /\ DW_HAND \in Nat /\ DW_HAND > 0
    BY HandOK
  <2>2. /\ IsFiniteSet(0 .. DW_HAND - 1)
        /\ Cardinality(0 .. DW_HAND - 1) = IF 0 > DW_HAND - 1 THEN 0 ELSE DW_HAND - 1 - 0 + 1
    BY <2>1, FS_Interval
  <2>3. QED
    BY <2>1, <2>2 DEF Slots
<1>2. ASSUME NEW slots \in SUBSET Slots
      PROVE  IsFiniteSet(slots) /\ Cardinality(slots) \in 0 .. DW_HAND
  <2>1. IsFiniteSet(slots) /\ Cardinality(slots) <= Cardinality(Slots)
    BY <1>1, FS_Subset
  <2>2. Cardinality(slots) \in Nat
    BY <2>1, FS_CardinalityType
  <2>3. QED
    BY <1>1, <2>1, <2>2, HandOK
<1>3. QED
  BY <1>1, <1>2

\* The cards in the slots go to the discard pile, which has room for them.
LEMMA DiscardSpreads ==
    ASSUME NEW p, NEW n \in DW_HAND .. DW_DECK, Spread(p, {}, n), NEW slots \in SUBSET Slots
    PROVE  Spread(Discarded(p, slots), slots, n) /\ CardsOf(Discarded(p, slots), slots) = CardsOf(p, {})
<1> DEFINE T == {p.hand[i] : i \in slots}
           q == [hand |-> p.hand, draw |-> p.draw, discard |-> p.discard \cup T]
<1>1. /\ IsFiniteSet(slots) /\ Cardinality(slots) \in 0 .. DW_HAND /\ Slots \ {} = Slots
      /\ IsFiniteSet(p.draw) /\ IsFiniteSet(p.discard) /\ Cardinality({}) = 0
      /\ Cardinality(p.draw) \in Nat /\ Cardinality(p.discard) \in Nat
  BY SlotsFinite, FS_CardinalityType, FS_EmptySet DEF Spread
<1>2. /\ \A i, j \in Slots : i # j => p.hand[i] # p.hand[j]
      /\ Held(p, {}) \cap p.draw = {} /\ Held(p, {}) \cap p.discard = {} /\ p.draw \cap p.discard = {}
      /\ Cardinality(p.draw) + Cardinality(p.discard) = n - DW_HAND
      /\ p = [hand |-> p.hand, draw |-> p.draw, discard |-> p.discard]
  BY <1>1, HandOK DEF Spread
<1>3. IsFiniteSet(T) /\ Cardinality(T) = Cardinality(slots)
  BY <1>1, <1>2, ImageCardinality
<1>4. Held(p, {}) = Held(p, slots) \cup T /\ Held(p, slots) \cap T = {}
  BY <1>2 DEF Held
<1>5. p.discard \cap T = {} /\ p.draw \cap T = {}
  BY <1>2, <1>4
<1>6. /\ IsFiniteSet(p.discard \cup T)
      /\ Cardinality(p.discard \cup T) = Cardinality(p.discard) + Cardinality(slots)
  BY <1>1, <1>3, <1>5, DisjointCardinality
<1>7. Cardinality(p.discard) + Cardinality(slots) <= DW_DECK
  BY <1>1, <1>2, HandOK
<1>8. Discarded(p, slots) = q
  <2>1. Discarded(p, slots) = [p EXCEPT !.discard = @ \cup T]
    BY <1>7 DEF Discarded
  <2> HIDE DEF T
  <2>2. QED
    BY <1>2, <2>1
<1> HIDE DEF T
<1>9. Held(q, slots) = Held(p, slots)
  BY DEF Held
<1>10. Spread(q, slots, n)
  <2>1. /\ \A i, j \in Slots \ slots : i # j => q.hand[i] # q.hand[j]
        /\ Held(q, slots) \cap q.draw = {} /\ Held(q, slots) \cap q.discard = {} /\ q.draw \cap q.discard = {}
    BY <1>2, <1>4, <1>5, <1>9
  <2>2. Cardinality(q.draw) + Cardinality(q.discard) = n - DW_HAND + Cardinality(slots)
    BY <1>1, <1>2, <1>6, HandOK
  <2>3. QED
    BY <1>1, <1>6, <2>1, <2>2 DEF Spread
<1>11. CardsOf(q, slots) = CardsOf(p, {})
  BY <1>4, <1>9 DEF CardsOf
<1>12. QED
  BY <1>8, <1>10, <1>11

\* The gap is filled from the draw pile, and from the reshuffled discard pile after it.
LEMMA DrawSpreads ==
    ASSUME NEW p, NEW n \in DW_HAND .. DW_DECK, NEW slots \in SUBSET Slots, Spread(p, slots, n),
           NEW f \in Draws(p, slots)
    PROVE  Spread(Drawn(p, f), {}, n) /\ CardsOf(Drawn(p, f), {}) = CardsOf(p, slots)
<1> DEFINE taken == {f[i] : i \in slots}
           rest == p.draw \cup p.discard
           q == Drawn(p, f)
<1>1. /\ f \in [slots -> rest] /\ \A i, j \in slots : i # j => f[i] # f[j]
      /\ DOMAIN f = slots
  BY DEF Draws
<1>2. /\ IsFiniteSet(slots) /\ Cardinality(slots) \in Nat /\ Cardinality({}) = 0
      /\ IsFiniteSet(taken) /\ Cardinality(taken) = Cardinality(slots)
  BY <1>1, SlotsFinite, HandOK, ImageCardinality, FS_EmptySet
<1>3. /\ Held(p, slots) \cap rest = {} /\ p.draw \cap p.discard = {}
      /\ \A i, j \in Slots \ slots : i # j => p.hand[i] # p.hand[j]
      /\ IsFiniteSet(p.draw) /\ IsFiniteSet(p.discard)
      /\ Cardinality(p.draw) + Cardinality(p.discard) = n - DW_HAND + Cardinality(slots)
  BY DEF Spread
<1>4. taken \subseteq rest
  BY <1>1
<1>5. q.hand = [i \in Slots |-> IF i \in slots THEN f[i] ELSE p.hand[i]]
  BY <1>1 DEF Drawn
<1>6. /\ q.draw \cup q.discard = rest \ taken /\ q.draw \cap q.discard = {}
      /\ q = [hand |-> q.hand, draw |-> q.draw, discard |-> q.discard]
  <2>1. q.draw = (IF (p.draw = {} \/ taken \cap p.discard # {}) /\ taken # {} THEN rest ELSE p.draw) \ taken
    BY <1>1 DEF Drawn
  <2>2. q.discard = IF (p.draw = {} \/ taken \cap p.discard # {}) /\ taken # {} THEN {} ELSE p.discard
    BY <1>1 DEF Drawn
  <2>3. q = [hand |-> q.hand, draw |-> q.draw, discard |-> q.discard]
    BY DEF Drawn
  <2> HIDE DEF q, taken
  <2>4. QED
    BY <1>3, <2>1, <2>2, <2>3
<1> HIDE DEF q
<1>7. Held(q, {}) = Held(p, slots) \cup taken
  BY <1>5 DEF Held
<1>8. \A i, j \in Slots : i # j => q.hand[i] # q.hand[j]
  <2>1. \A i \in slots : f[i] \in rest
    BY <1>1
  <2>2. \A i \in Slots \ slots : p.hand[i] \notin rest
    BY <1>3 DEF Held
  <2>3. QED
    BY <1>1, <1>3, <1>5, <2>1, <2>2
<1>9. /\ IsFiniteSet(q.draw) /\ IsFiniteSet(q.discard)
      /\ Cardinality(q.draw) + Cardinality(q.discard) = n - DW_HAND
  <2>1. IsFiniteSet(rest) /\ Cardinality(rest) = Cardinality(p.draw) + Cardinality(p.discard)
    BY <1>3, DisjointCardinality
  <2> HIDE DEF rest, taken
  <2>2. IsFiniteSet(rest \ taken)
    BY <2>1, FS_Subset, rest \ taken \in SUBSET rest
  <2>3. rest = (rest \ taken) \cup taken /\ (rest \ taken) \cap taken = {}
    BY <1>4
  <2>4. Cardinality(rest) = Cardinality(rest \ taken) + Cardinality(taken) /\ Cardinality(rest \ taken) \in Nat
    BY <1>2, <2>2, <2>3, DisjointCardinality
  <2>5. IsFiniteSet(q.draw) /\ IsFiniteSet(q.discard)
    BY <1>6, <2>2, FS_Subset, q.draw \in SUBSET (rest \ taken), q.discard \in SUBSET (rest \ taken)
  <2>6. Cardinality(rest \ taken) = Cardinality(q.draw) + Cardinality(q.discard)
    BY <1>6, <2>5, DisjointCardinality
  <2>7. QED
    BY <1>2, <1>3, <2>1, <2>4, <2>5, <2>6, HandOK
<1>10. Held(q, {}) \cap q.draw = {} /\ Held(q, {}) \cap q.discard = {}
  <2> HIDE DEF taken
  <2>1. QED
    BY <1>3, <1>6, <1>7
<1>11. n - DW_HAND = n - DW_HAND + Cardinality({})
  BY <1>2, HandOK
<1>12. Spread(q, {}, n)
  BY <1>6, <1>8, <1>9, <1>10, <1>11 DEF Spread
<1>13. CardsOf(q, {}) = CardsOf(p, slots)
  <2> HIDE DEF taken
  <2>1. QED
    BY <1>4, <1>6, <1>7 DEF CardsOf
<1>14. QED
  BY <1>12, <1>13 DEF q

LEMMA ReplaceSpreads ==
    ASSUME NEW p, NEW n \in DW_HAND .. DW_DECK, Spread(p, {}, n), NEW slots \in SUBSET Slots,
           NEW q \in Replace(p, slots)
    PROVE  Spread(q, {}, n) /\ CardsOf(q, {}) = CardsOf(p, {})
<1>1. Spread(Discarded(p, slots), slots, n) /\ CardsOf(Discarded(p, slots), slots) = CardsOf(p, {})
  BY DiscardSpreads
<1>2. PICK f \in Draws(Discarded(p, slots), slots) : q = Drawn(Discarded(p, slots), f)
  BY DEF Replace, Refill
<1> HIDE DEF Discarded
<1>3. QED
  BY <1>1, <1>2, DrawSpreads

\* Both seats' piles are spread, over different cards that together are both decks.
CardsInv ==
    /\ deck \in Decks
    /\ piles = Both(piles[0], piles[1])
    /\ \A s \in Seats : Spread(piles[s], {}, Len(deck[s]))
    /\ CardsOf(piles[0], {}) \cap CardsOf(piles[1], {}) = {}
    /\ CardsOf(piles[0], {}) \cup CardsOf(piles[1], {}) = Copies

LEMMA DeckLengths ==
    ASSUME deck \in Decks
    PROVE  /\ \A s \in Seats : Len(deck[s]) \in DW_HAND .. DW_DECK /\ Len(deck[s]) \in Nat
           /\ Copies = ({0} \X (1 .. Len(deck[0]))) \cup ({1} \X (1 .. Len(deck[1])))
<1>1. \A s \in Seats : Len(deck[s]) \in DW_HAND .. DW_DECK
  BY DecksOK DEF Seats
<1>2. \A s \in Seats : Len(deck[s]) \in Nat
  BY <1>1, HandOK
<1>3. Copies = ({0} \X (1 .. Len(deck[0]))) \cup ({1} \X (1 .. Len(deck[1])))
  BY DEF Copies, Seats
<1>4. QED
  BY <1>1, <1>2, <1>3

\* A deck that nobody has drawn from.
LEMMA WholeSpread ==
    ASSUME deck \in Decks, NEW s \in Seats
    PROVE  /\ Spread(Whole(deck, s), Slots, Len(deck[s]))
           /\ CardsOf(Whole(deck, s), Slots) = {s} \X (1 .. Len(deck[s]))
<1> DEFINE n == Len(deck[s])
           p == Whole(deck, s)
           g == [i \in 1 .. n |-> <<s, i>>]
<1>1. n \in Nat
  BY DeckLengths
<1>2. p.hand = [i \in Slots |-> <<s, 0>>] /\ p.draw = {s} \X (1 .. n) /\ p.discard = {}
      /\ p = [hand |-> p.hand, draw |-> p.draw, discard |-> p.discard]
  BY DEF Whole
<1> HIDE DEF p, n
<1>3. Held(p, Slots) = {}
  BY DEF Held
<1>4. IsFiniteSet({s} \X (1 .. n)) /\ Cardinality({s} \X (1 .. n)) = n
  <2>1. IsFiniteSet(1 .. n) /\ Cardinality(1 .. n) = n
    BY <1>1, FS_Interval
  <2>2. \A i, j \in 1 .. n : i # j => g[i] # g[j]
    OBVIOUS
  <2>3. {g[i] : i \in 1 .. n} = {s} \X (1 .. n)
    OBVIOUS
  <2> HIDE DEF g
  <2>4. IsFiniteSet({g[i] : i \in 1 .. n}) /\ Cardinality({g[i] : i \in 1 .. n}) = Cardinality(1 .. n)
    BY <2>1, <2>2, ImageCardinality
  <2>5. QED
    BY <2>1, <2>3, <2>4
<1>5. IsFiniteSet({}) /\ Cardinality({}) = 0 /\ Cardinality(Slots) = DW_HAND
  BY FS_EmptySet, SlotsFinite
<1>6. n + 0 = n - DW_HAND + DW_HAND
  BY <1>1, HandOK
<1>7. Spread(p, Slots, n)
  BY <1>2, <1>3, <1>4, <1>5, <1>6 DEF Spread
<1>8. QED
  BY <1>2, <1>3, <1>7 DEF CardsOf, p, n

LEMMA CardsStart == Init => CardsInv
<1> SUFFICES ASSUME Init
             PROVE  CardsInv
  OBVIOUS
<1>1. deck \in Decks
  BY DEF Init
<1>2. PICK p \in Refill(Whole(deck, 0), Slots), q \in Refill(Whole(deck, 1), Slots) : piles = Both(p, q)
  BY DEF Init
<1>3. piles[0] = p /\ piles[1] = q /\ 0 \in Seats /\ 1 \in Seats
  BY <1>2 DEF Both, Seats
<1>4. Spread(p, {}, Len(deck[0])) /\ CardsOf(p, {}) = {0} \X (1 .. Len(deck[0]))
  <2>1. PICK f \in Draws(Whole(deck, 0), Slots) : p = Drawn(Whole(deck, 0), f)
    BY <1>2 DEF Refill
  <2>2. /\ Spread(Whole(deck, 0), Slots, Len(deck[0])) /\ Len(deck[0]) \in DW_HAND .. DW_DECK
        /\ CardsOf(Whole(deck, 0), Slots) = {0} \X (1 .. Len(deck[0]))
    BY <1>1, <1>3, WholeSpread, DeckLengths
  <2> HIDE DEF Whole
  <2>3. QED
    BY <2>1, <2>2, DrawSpreads
<1>5. Spread(q, {}, Len(deck[1])) /\ CardsOf(q, {}) = {1} \X (1 .. Len(deck[1]))
  <2>1. PICK f \in Draws(Whole(deck, 1), Slots) : q = Drawn(Whole(deck, 1), f)
    BY <1>2 DEF Refill
  <2>2. /\ Spread(Whole(deck, 1), Slots, Len(deck[1])) /\ Len(deck[1]) \in DW_HAND .. DW_DECK
        /\ CardsOf(Whole(deck, 1), Slots) = {1} \X (1 .. Len(deck[1]))
    BY <1>1, <1>3, WholeSpread, DeckLengths
  <2>3. QED
    BY <2>1, <2>2, DrawSpreads
<1>6. CardsOf(p, {}) \cap CardsOf(q, {}) = {}
  BY <1>4, <1>5
<1>7. \A s \in Seats : Spread(piles[s], {}, Len(deck[s]))
  BY <1>3, <1>4, <1>5 DEF Seats
<1>8. QED
  BY <1>1, <1>2, <1>3, <1>4, <1>5, <1>6, <1>7, DeckLengths DEF CardsInv

\* Exchanged hands are as large as each other.
LEMMA SwapSpreads ==
    ASSUME NEW p, p = Both(p[0], p[1]), NEW n0, NEW n1, Spread(p[0], {}, n0), Spread(p[1], {}, n1), NEW a,
           CardsOf(p[0], {}) \cap CardsOf(p[1], {}) = {}
    PROVE  /\ Swap(p, a) = Both(Swap(p, a)[0], Swap(p, a)[1])
           /\ Spread(Swap(p, a)[0], {}, n0) /\ Spread(Swap(p, a)[1], {}, n1)
           /\ CardsOf(Swap(p, a)[0], {}) \cap CardsOf(Swap(p, a)[1], {}) = {}
           /\ CardsOf(Swap(p, a)[0], {}) \cup CardsOf(Swap(p, a)[1], {}) = CardsOf(p[0], {}) \cup CardsOf(p[1], {})
<1>1. CASE Swap(p, a) = p
  BY <1>1
<1>2. CASE Swap(p, a) # p
  <2> DEFINE x == [hand |-> p[1].hand, draw |-> p[0].draw, discard |-> p[0].discard]
             y == [hand |-> p[0].hand, draw |-> p[1].draw, discard |-> p[1].discard]
  <2>1. Swap(p, a) = [s \in Seats |-> [p[s] EXCEPT !.hand = p[1 - s].hand]]
    BY <1>2 DEF Swap
  <2>2. /\ p[0] = [hand |-> p[0].hand, draw |-> p[0].draw, discard |-> p[0].discard]
        /\ p[1] = [hand |-> p[1].hand, draw |-> p[1].draw, discard |-> p[1].discard]
    BY DEF Spread
  <2>3. Swap(p, a)[0] = x /\ Swap(p, a)[1] = y /\ Swap(p, a) = Both(x, y)
    <3>1. [p[0] EXCEPT !.hand = p[1].hand] = x /\ [p[1] EXCEPT !.hand = p[0].hand] = y
      BY <2>2
    <3> HIDE DEF x, y
    <3>2. QED
      BY <2>1, <3>1 DEF Both, Seats
  <2>4. Held(x, {}) = Held(p[1], {}) /\ Held(y, {}) = Held(p[0], {})
    BY DEF Held
  <2>5. Spread(x, {}, n0) /\ Spread(y, {}, n1)
    BY <2>4 DEF Spread, CardsOf
  <2>6. /\ CardsOf(x, {}) \cap CardsOf(y, {}) = {}
        /\ CardsOf(x, {}) \cup CardsOf(y, {}) = CardsOf(p[0], {}) \cup CardsOf(p[1], {})
    BY <2>4 DEF Spread, CardsOf
  <2>7. QED
    BY <2>3, <2>5, <2>6
<1>3. QED
  BY <1>1, <1>2

LEMMA CardsStep == MatchInv /\ CardsInv /\ [Next]_vars => CardsInv'
<1> SUFFICES ASSUME MatchInv, CardsInv, [Next]_vars
             PROVE  CardsInv'
  OBVIOUS
<1>1. ASSUME piles' = piles, deck' = deck
      PROVE  CardsInv'
  <2>1. Copies' = Copies
    BY <1>1 DEF Copies
  <2>2. QED
    BY <1>1, <2>1 DEF CardsInv
<1>2. CASE Resolve
  <2> DEFINE a == Resolution(meters, LastCards).riders
             played(s) == IF lock_slot[s] = Pass THEN {} ELSE {lock_slot[s]}
             redrawn(x, s) == IF a[s].redraw > 0 THEN Replace(x, Slots) ELSE {x}
  <2>1. PICK p \in Replace(piles[0], played(0)), q \in Replace(piles[1], played(1)) :
            \E pp \in redrawn(p, 0), qq \in redrawn(q, 1) : piles' = Swap(Both(pp, qq), a)
    BY <1>2 DEF Resolve
  <2>2. PICK pp \in redrawn(p, 0), qq \in redrawn(q, 1) : piles' = Swap(Both(pp, qq), a)
    BY <2>1
  <2>3. deck' = deck /\ \A s \in Seats : lock_slot[s] # Open
    BY <1>2 DEF Resolve
  <2>4. played(0) \in SUBSET Slots /\ played(1) \in SUBSET Slots
    <3>1. lock_slot[0] \in Slots \cup {Open, Pass} /\ lock_slot[1] \in Slots \cup {Open, Pass}
      BY DEF MatchInv, TypeOK, Seats
    <3>2. QED
      BY <2>3, <3>1 DEF Seats
  <2> DEFINE n0 == Len(deck[0])
             n1 == Len(deck[1])
  <2>5. n0 \in DW_HAND .. DW_DECK /\ n1 \in DW_HAND .. DW_DECK
    BY DeckLengths DEF CardsInv, Seats
  <2>6. Spread(piles[0], {}, n0) /\ Spread(piles[1], {}, n1)
    BY DEF CardsInv, Seats
  <2> HIDE DEF a, played, n0, n1
  <2>7. /\ Spread(p, {}, n0) /\ CardsOf(p, {}) = CardsOf(piles[0], {})
        /\ Spread(q, {}, n1) /\ CardsOf(q, {}) = CardsOf(piles[1], {})
    BY <2>1, <2>4, <2>5, <2>6, ReplaceSpreads
  <2>8. Spread(pp, {}, n0) /\ CardsOf(pp, {}) = CardsOf(p, {})
    <3>1. CASE a[0].redraw > 0
      BY <2>2, <2>5, <2>7, <3>1, ReplaceSpreads, Slots \in SUBSET Slots
    <3>2. CASE ~(a[0].redraw > 0)
      BY <2>2, <2>7, <3>2
    <3>3. QED
      BY <3>1, <3>2
  <2>9. Spread(qq, {}, n1) /\ CardsOf(qq, {}) = CardsOf(q, {})
    <3>1. CASE a[1].redraw > 0
      BY <2>2, <2>5, <2>7, <3>1, ReplaceSpreads, Slots \in SUBSET Slots
    <3>2. CASE ~(a[1].redraw > 0)
      BY <2>2, <2>7, <3>2
    <3>3. QED
      BY <3>1, <3>2
  <2> DEFINE b == Both(pp, qq)
  <2>10. b[0] = pp /\ b[1] = qq
    BY DEF Both, Seats
  <2> HIDE DEF b
  <2>11. /\ b = Both(b[0], b[1]) /\ Spread(b[0], {}, n0) /\ Spread(b[1], {}, n1)
         /\ CardsOf(b[0], {}) \cap CardsOf(b[1], {}) = {}
         /\ CardsOf(b[0], {}) \cup CardsOf(b[1], {}) = Copies
    <3>1. CardsOf(b[0], {}) = CardsOf(piles[0], {}) /\ CardsOf(b[1], {}) = CardsOf(piles[1], {})
      BY <2>7, <2>8, <2>9, <2>10
    <3>2. b = Both(b[0], b[1])
      BY <2>10 DEF b
    <3>3. Spread(b[0], {}, n0) /\ Spread(b[1], {}, n1)
      BY <2>8, <2>9, <2>10
    <3>4. QED
      BY <3>1, <3>2, <3>3 DEF CardsInv
  <2>12. piles' = Swap(b, a)
    BY <2>2 DEF b
  <2>13. /\ piles' = Both(piles'[0], piles'[1])
         /\ Spread(piles'[0], {}, n0) /\ Spread(piles'[1], {}, n1)
         /\ CardsOf(piles'[0], {}) \cap CardsOf(piles'[1], {}) = {}
         /\ CardsOf(piles'[0], {}) \cup CardsOf(piles'[1], {}) = Copies
    BY <2>11, <2>12, SwapSpreads
  <2>14. Copies' = Copies /\ deck' \in Decks
    BY <2>3 DEF Copies, CardsInv
  <2>15. \A s \in Seats : Spread(piles'[s], {}, Len(deck'[s]))
    BY <2>3, <2>13 DEF Seats, n0, n1
  <2>16. QED
    BY <2>13, <2>14, <2>15 DEF CardsInv
<1>3. CASE ~Resolve
  <2>1. piles' = piles /\ deck' = deck
    BY <1>3 DEF Next, BeginRound, Lock, Forfeit, vars, table
  <2>2. QED
    BY <1>1, <2>1
<1>4. QED
  BY <1>2, <1>3

-----------------------------------------------------------------------------
(***************************************************************************)
(* draw_card never finds both piles empty: as long as no copy is lost, a   *)
(* deck that is no smaller than a hand fills every slot of it.             *)
(***************************************************************************)

LEMMA LeastOf ==
    ASSUME NEW S \in SUBSET Nat, S # {}
    PROVE  \E i \in S : \A j \in S : i <= j
<1> DEFINE R == OpToRel(<, Nat)
<1>1. IsWellFoundedOn(R, Nat)
  BY NatLessThanWellFounded
<1>2. \A x, y \in Nat : x < y => <<x, y>> \in R
  BY DEF OpToRel
<1> HIDE DEF R
<1>3. PICK i \in S : \A j \in S : ~ (<<j, i>> \in R)
  BY <1>1, WFMin
<1>4. \A j \in S : ~(j < i)
  BY <1>2, <1>3
<1>5. QED
  BY <1>4

\* The lowest slots are as many as one likes.
LEMMA LowestSlots ==
    ASSUME NEW slots \in SUBSET Slots, NEW n \in 0 .. Cardinality(slots)
    PROVE  \E t \in Nat : Cardinality({j \in slots : j < t}) = n
<1> DEFINE Below(t) == {j \in slots : j < t}
           T == {t \in Nat : Cardinality(Below(t)) >= n}
<1>1. IsFiniteSet(slots) /\ Cardinality(slots) \in Nat /\ \A j \in slots : j \in Nat /\ j < DW_HAND
  BY SlotsFinite, HandOK DEF Slots
<1>2. \A t \in Nat : IsFiniteSet(Below(t)) /\ Cardinality(Below(t)) \in Nat
  BY <1>1, FS_Subset, FS_CardinalityType
<1>3. T # {}
  <2>1. Below(DW_HAND) = slots
    BY <1>1
  <2>2. DW_HAND \in T
    BY <1>1, <2>1, HandOK
  <2>3. QED
    BY <2>2
<1>4. PICK t \in T : \A u \in T : t <= u
  BY <1>3, LeastOf
<1>5. CASE t = 0
  <2>1. Below(0) = {}
    BY <1>1
  <2>2. QED
    BY <1>1, <1>2, <1>4, <1>5, <2>1, FS_EmptySet
<1>6. CASE t # 0
  <2>1. t \in Nat /\ t - 1 \in Nat /\ t - 1 \notin T /\ Cardinality(Below(t)) >= n
    BY <1>4, <1>6
  <2>2. Cardinality(Below(t - 1)) < n
    BY <1>1, <1>2, <2>1
  <2>3. Below(t) \in SUBSET (Below(t - 1) \cup {t - 1})
    <3>1. \A j \in slots : j < t => j < t - 1 \/ j = t - 1
      BY <1>1, <2>1
    <3>2. QED
      BY <3>1
  <2> HIDE DEF Below, T
  <2>4. /\ IsFiniteSet(Below(t - 1) \cup {t - 1})
        /\ Cardinality(Below(t - 1) \cup {t - 1}) <= Cardinality(Below(t - 1)) + 1
    <3>1. IsFiniteSet(Below(t - 1)) /\ Cardinality(Below(t - 1)) \in Nat
      BY <1>2, <2>1
    <3> DEFINE S == Below(t - 1)
    <3> HIDE DEF S
    <3>2. /\ IsFiniteSet(S \cup {t - 1})
          /\ Cardinality(S \cup {t - 1}) = IF t - 1 \in S THEN Cardinality(S) ELSE Cardinality(S) + 1
      BY <3>1, FS_AddElement DEF S
    <3>3. QED
      BY <3>1, <3>2 DEF S
  <2>5. Cardinality(Below(t)) <= Cardinality(Below(t - 1) \cup {t - 1})
    BY <2>3, <2>4, FS_Subset
  <2>6. Cardinality(Below(t - 1) \cup {t - 1}) \in Nat
    BY <2>4, FS_CardinalityType
  <2>7. Cardinality(Below(t)) = n
    BY <1>1, <1>2, <2>1, <2>2, <2>4, <2>5, <2>6
  <2>8. QED
    BY <2>1, <2>7 DEF Below
<1>7. QED
  BY <1>5, <1>6

LEMMA InjectionExists ==
    ASSUME NEW A, NEW B, IsFiniteSet(A), IsFiniteSet(B), Cardinality(A) <= Cardinality(B)
    PROVE  \E f \in [A -> B] : \A i, j \in A : i # j => f[i] # f[j]
<1>1. Cardinality(A) \in Nat /\ Cardinality(B) \in Nat
  BY FS_CardinalityType
<1>2. IsFiniteSet(1 .. Cardinality(A)) /\ Cardinality(1 .. Cardinality(A)) = Cardinality(A)
  BY <1>1, FS_Interval
<1>3. PICK g : g \in Bijection(A, 1 .. Cardinality(A))
  BY <1>2, FS_SameCardinalityBij DEF ExistsBijection
<1>4. PICK h : h \in Bijection(1 .. Cardinality(B), B)
  BY FS_CardinalityType DEF ExistsBijection
<1>5. \A i \in A : g[i] \in 1 .. Cardinality(B)
  BY <1>1, <1>3 DEF Bijection, Injection
<1>6. [i \in A |-> h[g[i]]] \in [A -> B]
  BY <1>4, <1>5 DEF Bijection, Injection
<1>7. \A i, j \in A : i # j => h[g[i]] # h[g[j]]
  BY <1>3, <1>4, <1>5 DEF Bijection, Injection, IsInjective
<1>8. QED
  BY <1>6, <1>7

\* There is a card for every slot that is to be filled: a deck is no smaller than a hand.
LEMMA DrawsExist ==
    ASSUME NEW p, NEW n \in DW_HAND .. DW_DECK, NEW slots \in SUBSET Slots, Spread(p, slots, n)
    PROVE  Draws(p, slots) # {}
<1>1. /\ IsFiniteSet(p.draw) /\ Cardinality(p.draw) \in Nat
      /\ IsFiniteSet(p.discard) /\ Cardinality(p.discard) \in Nat
      /\ IsFiniteSet(slots) /\ Cardinality(slots) \in Nat /\ slots \subseteq Int
      /\ p.draw \cap p.discard = {}
  BY SlotsFinite, FS_CardinalityType, HandOK DEF Spread, Slots
<1>2. Cardinality(p.draw) + Cardinality(p.discard) >= Cardinality(slots)
  <2>1. Cardinality(p.draw) + Cardinality(p.discard) = n - DW_HAND + Cardinality(slots)
    BY DEF Spread
  <2>2. n \in Int /\ n >= DW_HAND /\ DW_HAND \in Int
    BY HandOK
  <2>3. QED
    BY <1>1, <2>1, <2>2
<1>3. CASE Cardinality(slots) <= Cardinality(p.draw)
  <2>1. PICK f \in [slots -> p.draw] : \A i, j \in slots : i # j => f[i] # f[j]
    BY <1>1, <1>3, InjectionExists
  <2>2. f \in [slots -> p.draw \cup p.discard] /\ \A i \in slots : f[i] \notin p.discard
    BY <1>1, <2>1
  <2>3. f \in Draws(p, slots)
    BY <2>1, <2>2 DEF Draws
  <2>4. QED
    BY <2>3
<1>4. CASE Cardinality(p.draw) < Cardinality(slots)
  <2>1. PICK t \in Nat : Cardinality({j \in slots : j < t}) = Cardinality(p.draw)
    BY <1>1, <1>4, LowestSlots, Cardinality(p.draw) \in 0 .. Cardinality(slots)
  <2> DEFINE low == {j \in slots : j < t}
             rest == {j \in slots : ~(j < t)}
  <2>2. low \in SUBSET slots /\ rest \in SUBSET slots /\ slots = low \cup rest /\ low \cap rest = {}
    OBVIOUS
  <2>3. IsFiniteSet(low) /\ IsFiniteSet(rest) /\ Cardinality(rest) \in Nat
    BY <1>1, <2>2, FS_Subset, FS_CardinalityType
  <2>4. Cardinality(rest) <= Cardinality(p.discard)
    <3>1. Cardinality(slots) = Cardinality(low) + Cardinality(rest)
      BY <2>2, <2>3, DisjointCardinality
    <3>2. QED
      BY <1>1, <1>2, <2>1, <2>3, <3>1
  <2>5. PICK g : g \in Bijection(low, p.draw)
    BY <1>1, <2>1, <2>3, FS_SameCardinalityBij DEF ExistsBijection
  <2>6. PICK h \in [rest -> p.discard] : \A i, j \in rest : i # j => h[i] # h[j]
    BY <1>1, <2>3, <2>4, InjectionExists
  <2> DEFINE f == [i \in slots |-> IF i \in low THEN g[i] ELSE h[i]]
  <2>7. /\ \A i \in low : g[i] \in p.draw
        /\ \A i, j \in low : i # j => g[i] # g[j]
        /\ \A c \in p.draw : \E i \in low : g[i] = c
    BY <2>5 DEF Bijection, Injection, Surjection, IsInjective
  <2>8. \A i, j \in slots : i < j /\ i \in rest => j \in rest
    BY <1>1, <2>1
  <2> HIDE DEF low, rest
  <2>9. /\ \A i \in low : f[i] = g[i] /\ f[i] \in p.draw
        /\ \A i \in rest : f[i] = h[i] /\ f[i] \in p.discard
    BY <2>2, <2>6, <2>7
  <2>10. f \in [slots -> p.draw \cup p.discard]
    BY <2>2, <2>6, <2>7
  <2> HIDE DEF f
  <2>11. \A i, j \in slots : i # j => f[i] # f[j]
    BY <1>1, <2>2, <2>6, <2>7, <2>9
  <2>12. \A i, j \in slots : i < j /\ f[i] \in p.discard => f[j] \in p.discard
    BY <1>1, <2>2, <2>8, <2>9
  <2>13. p.draw \subseteq {f[i] : i \in slots}
    BY <2>2, <2>7, <2>9
  <2>14. f \in Draws(p, slots)
    BY <2>10, <2>11, <2>12, <2>13 DEF Draws
  <2>15. QED
    BY <2>14
<1>5. QED
  BY <1>1, <1>3, <1>4

LEMMA ReplaceExists ==
    ASSUME NEW p, NEW n \in DW_HAND .. DW_DECK, Spread(p, {}, n), NEW slots \in SUBSET Slots
    PROVE  Replace(p, slots) # {}
<1>1. Spread(Discarded(p, slots), slots, n)
  BY DiscardSpreads
<1> HIDE DEF Discarded
<1>2. Draws(Discarded(p, slots), slots) # {}
  BY <1>1, DrawsExist
<1>3. QED
  BY <1>2 DEF Replace, Refill

\* For every pair of decks, every copy is in exactly one of the six places, no hand has a gap,
\* and there is a card for every slot that will have to be filled.
THEOREM CardsStayKept == Spec => []CardsKept
<1>1. Init => CardsInv
  BY CardsStart
<1>2. MatchInv /\ CardsInv /\ [Next]_vars => CardsInv'
  BY CardsStep
<1>3. CardsInv => CardsKept
  <2> SUFFICES ASSUME CardsInv
               PROVE  CardsKept
    OBVIOUS
  <2>1. \A s \in Seats : HandOf(s) = Held(piles[s], {})
    BY DEF HandOf, Held
  <2>2. UNION {HandOf(s) \cup piles[s].draw \cup piles[s].discard : s \in Seats} = Copies
    <3>1. UNION {CardsOf(piles[s], {}) : s \in Seats} = CardsOf(piles[0], {}) \cup CardsOf(piles[1], {})
      BY DEF Seats
    <3>2. \A s \in Seats : HandOf(s) \cup piles[s].draw \cup piles[s].discard = CardsOf(piles[s], {})
      BY <2>1 DEF CardsOf
    <3> HIDE DEF HandOf
    <3>3. QED
      BY <3>1, <3>2 DEF CardsInv
  <2>3. ASSUME NEW s \in Seats
        PROVE  Cardinality(HandOf(s)) + Cardinality(piles[s].draw) + Cardinality(piles[s].discard) = Len(deck[s])
    <3>1. Spread(piles[s], {}, Len(deck[s])) /\ Len(deck[s]) \in Nat /\ Slots \ {} = Slots
      BY DeckLengths DEF CardsInv
    <3>2. \A i, j \in Slots : i # j => piles[s].hand[i] # piles[s].hand[j]
      BY <3>1 DEF Spread
    <3>3. Cardinality(HandOf(s)) = DW_HAND
      BY <3>2, SlotsFinite, ImageCardinality DEF HandOf
    <3>4. /\ Cardinality(piles[s].draw) \in Nat /\ Cardinality(piles[s].discard) \in Nat
          /\ Cardinality(piles[s].draw) + Cardinality(piles[s].discard) = Len(deck[s]) - DW_HAND + 0
      BY <3>1, FS_CardinalityType, FS_EmptySet DEF Spread
    <3>5. QED
      BY <3>1, <3>3, <3>4, HandOK
  <2>4. ASSUME NEW s \in Seats, NEW played \in {{}} \cup {{i} : i \in Slots}
        PROVE  /\ Replace(piles[s], played) # {}
               /\ \A p \in Replace(piles[s], played) : Replace(p, Slots) # {}
    <3>1. /\ played \in SUBSET Slots /\ Slots \in SUBSET Slots
          /\ Len(deck[s]) \in DW_HAND .. DW_DECK /\ Spread(piles[s], {}, Len(deck[s]))
      BY DeckLengths DEF CardsInv
    <3>2. \A p \in Replace(piles[s], played) : Spread(p, {}, Len(deck[s]))
      BY <3>1, ReplaceSpreads
    <3>3. QED
      BY <3>1, <3>2, ReplaceExists
  <2>5. QED
    BY <2>2, <2>3, <2>4 DEF CardsKept, CopiesKept, DrawsSuffice
<1>4. QED
  BY <1>1, <1>2, <1>3, MatchSound, PTL DEF Spec

-----------------------------------------------------------------------------
(***************************************************************************)
(* Neither seat is favoured in the fight: up to the damage that follows    *)
(* the attack, every step maps mirrored meters to mirrored meters.         *)
(***************************************************************************)

LEMMA MirrorSwaps ==
    ASSUME NEW f
    PROVE  /\ Mirror(f)[0] = f[1] /\ Mirror(f)[1] = f[0]
           /\ \A s \in Seats : Mirror(f)[s] = f[1 - s] /\ Mirror(f)[1 - s] = f[s]
BY DEF Mirror, Both, Seats

LEMMA MirrorIn ==
    ASSUME NEW S, NEW f \in [Seats -> S]
    PROVE  Mirror(f) \in [Seats -> S]
BY DEF Mirror, Both, Seats

LEMMA PaidMirror ==
    ASSUME NEW m, NEW decl
    PROVE  Paid(Mirror(m), Mirror(decl)) = Mirror(Paid(m, decl))
BY DEF Paid, Mirror, Both, Seats

LEMMA SubstitutedMirror ==
    ASSUME NEW m, NEW decl
    PROVE  Substituted(Mirror(m), Mirror(decl)) = Mirror(Substituted(m, decl))
BY DEF Substituted, Mirror, Both, Seats

LEMMA ContextMirror ==
    ASSUME NEW m, NEW e, NEW s \in Seats, NEW dealt, NEW taken
    PROVE  Context(Mirror(m), Mirror(e), 1 - s, dealt, taken) = Context(m, e, s, dealt, taken)
<1>1. /\ 1 - (1 - s) = s
      /\ Mirror(m)[1 - s] = m[s] /\ Mirror(m)[s] = m[1 - s]
      /\ Mirror(e)[1 - s] = e[s] /\ Mirror(e)[s] = e[1 - s]
  BY DEF Mirror, Both, Seats
<1>2. QED
  BY <1>1 DEF Context

LEMMA RiderMirror ==
    ASSUME NEW m, NEW e, NEW s \in Seats, NEW dealt, NEW taken, NEW ch
    PROVE  Rider(ch, Mirror(m), Mirror(e), 1 - s, dealt, taken) = Rider(ch, m, e, s, dealt, taken)
<1>1. Mirror(e)[1 - s] = e[s]
  BY MirrorSwaps
<1>2. Context(Mirror(m), Mirror(e), 1 - s, dealt, taken) = Context(m, e, s, dealt, taken)
  BY ContextMirror
<1>3. QED
  BY <1>1, <1>2 DEF Rider

LEMMA EffectiveMirror ==
    ASSUME NEW m, NEW orig
    PROVE  Effective(Mirror(m), Mirror(orig)) = Mirror(Effective(m, orig))
<1>1. ASSUME NEW s \in Seats
      PROVE  /\ Cancelled(Mirror(m), Mirror(orig), 1 - s) = Cancelled(m, orig, s)
             /\ Copied(Mirror(m), Mirror(orig), 1 - s) = Copied(m, orig, s)
  <2>1. 1 - s \in Seats /\ 1 - (1 - s) = s
    BY DEF Seats
  <2>2. Cancelled(Mirror(m), Mirror(orig), 1 - s) = Cancelled(m, orig, s)
    <3>1. Rider(7, Mirror(m), Mirror(orig), 1 - (1 - s), 0, 0) = Rider(7, m, orig, 1 - s, 0, 0)
      BY <2>1, RiderMirror
    <3>2. QED
      BY <3>1 DEF Cancelled
  <2>3. Rider(8, Mirror(m), Mirror(orig), 1 - s, 0, 0) = Rider(8, m, orig, s, 0, 0)
    BY RiderMirror
  <2>4. QED
    BY <2>2, <2>3 DEF Copied
<1>2. /\ Cancelled(Mirror(m), Mirror(orig), 1) = Cancelled(m, orig, 0)
      /\ Cancelled(Mirror(m), Mirror(orig), 0) = Cancelled(m, orig, 1)
      /\ Copied(Mirror(m), Mirror(orig), 1) = Copied(m, orig, 0)
      /\ Copied(Mirror(m), Mirror(orig), 0) = Copied(m, orig, 1)
  <2>1. 1 - 0 = 1 /\ 1 - 1 = 0 /\ 0 \in Seats /\ 1 \in Seats
    BY DEF Seats
  <2>2. QED
    BY <1>1, <2>1
<1>3. Mirror(orig)[0] = orig[1] /\ Mirror(orig)[1] = orig[0]
  BY MirrorSwaps
<1>4. QED
  BY <1>2, <1>3 DEF Effective, Mirror, Both, Seats

\* What a card that always lands is worth does not depend on the exchange.
LEMMA BypassSteady ==
    ASSUME NEW m, NEW e, Played(e), NEW s \in Seats, NEW d, NEW f
    PROVE  Bypass(m, e, d, s) = Bypass(m, e, f, s)
<1>1. ASSUME NEW w, Steady(w), NEW c, NEW k
      PROVE  Adds(w, 3, c) = Adds(w, 3, k)
  <2>1. CASE fx_ch(w) = 3
    <3>1. fx_amount(w, c) = fx_aa(w) /\ fx_amount(w, k) = fx_aa(w)
      BY <1>1, <2>1, SteadyAmount
    <3>2. QED
      BY <3>1 DEF Adds
  <2>2. CASE fx_ch(w) # 3
    BY <2>2 DEF Adds
  <2>3. QED
    BY <2>1, <2>2
<1>2. CASE e[s] < 0
  BY <1>2 DEF Bypass, Rider
<1>3. CASE ~(e[s] < 0)
  <2>1. e[s] \in CardIds
    BY <1>3 DEF Played, Plays, CardIds
  <2>2. Steady(card_fx_a(e[s])) /\ Steady(card_fx_b(e[s]))
    BY <2>1, WordsIn
  <2> DEFINE c == Context(m, e, s, d[s], d[1 - s])
             k == Context(m, e, s, f[s], f[1 - s])
  <2>3. /\ Bypass(m, e, d, s) = Adds(card_fx_a(e[s]), 3, c) + Adds(card_fx_b(e[s]), 3, c)
        /\ Bypass(m, e, f, s) = Adds(card_fx_a(e[s]), 3, k) + Adds(card_fx_b(e[s]), 3, k)
    BY <1>3 DEF Bypass, Rider
  <2> HIDE DEF c, k
  <2>4. /\ Adds(card_fx_a(e[s]), 3, c) = Adds(card_fx_a(e[s]), 3, k)
        /\ Adds(card_fx_b(e[s]), 3, c) = Adds(card_fx_b(e[s]), 3, k)
    BY <1>1, <2>2
  <2>5. QED
    BY <2>3, <2>4
<1>4. QED
  BY <1>2, <1>3

LEMMA BypassMirror ==
    ASSUME NEW m, NEW e, Played(e), NEW s \in Seats, NEW d, NEW f
    PROVE  Bypass(Mirror(m), Mirror(e), f, 1 - s) = Bypass(m, e, d, s)
<1>1. Played(Mirror(e)) /\ 1 - s \in Seats
  BY MirrorIn DEF Played, Seats
<1>2. Bypass(Mirror(m), Mirror(e), f, 1 - s) = Bypass(Mirror(m), Mirror(e), Mirror(d), 1 - s)
  BY <1>1, BypassSteady
<1>3. Mirror(d)[1 - s] = d[s] /\ Mirror(d)[1 - (1 - s)] = d[1 - s]
  BY DEF Mirror, Both, Seats
<1>4. QED
  BY <1>2, <1>3, RiderMirror DEF Bypass

LEMMA UnreflectedMirror ==
    ASSUME NEW m, NEW e, Played(e), NEW s \in Seats, NEW d, Dealing(d)
    PROVE  Unreflected(Mirror(m), Mirror(e), Mirror(d), 1 - s) = Mirror(Unreflected(m, e, d, s))
<1>1. Bypass(Mirror(m), Mirror(e), Mirror(d), 1 - s) = Bypass(m, e, d, s)
  BY BypassMirror
<1>2. Mirror(e)[1 - (1 - s)] = e[1 - s] /\ 1 - (1 - s) = s
  BY DEF Mirror, Both, Seats
<1>3. [Mirror(d) EXCEPT ![s] = 0] = Mirror([d EXCEPT ![1 - s] = 0])
  <2> DEFINE f == [Mirror(d) EXCEPT ![s] = 0]
             g == Mirror([d EXCEPT ![1 - s] = 0])
  <2>1. \A t \in Seats : f[t] = IF t = s THEN 0 ELSE d[1 - t]
    BY DEF Mirror, Both, Seats
  <2>2. \A t \in Seats : g[t] = IF t = s THEN 0 ELSE d[1 - t]
    BY DEF Mirror, Both, Seats, Dealing
  <2>3. f \in [Seats -> Nat] /\ g \in [Seats -> Nat]
    <3>1. d \in [Seats -> Nat] /\ [d EXCEPT ![1 - s] = 0] \in [Seats -> Nat]
      BY DEF Dealing
    <3>2. Mirror(d) \in [Seats -> Nat] /\ g \in [Seats -> Nat]
      BY <3>1, MirrorIn
    <3>3. QED
      BY <3>2
  <2> HIDE DEF f, g
  <2>4. \A t \in Seats : f[t] = g[t]
    BY <2>1, <2>2
  <2>5. f = g
    BY <2>3, <2>4
  <2>6. QED
    BY <2>5 DEF f, g
<1>4. QED
  BY <1>1, <1>2, <1>3 DEF Unreflected

\* Which seat comes first in stopping the counter damage makes no difference.
LEMMA UnreflectedOrder ==
    ASSUME NEW m, NEW e, Played(e), NEW d, Dealing(d)
    PROVE  Unreflected(m, e, Unreflected(m, e, d, 0), 1) = Unreflected(m, e, Unreflected(m, e, d, 1), 0)
<1> DEFINE stops(s) == Bypass(m, e, d, s) > 0 /\ e[1 - s] >= 0 /\ card_kind(e[1 - s]) = Defense
<1>1. \A s \in Seats : \A f : Unreflected(m, e, f, s) = IF stops(s) THEN [f EXCEPT ![1 - s] = 0] ELSE f
  BY BypassSteady DEF Unreflected
<1>2. [[d EXCEPT ![1] = 0] EXCEPT ![0] = 0] = [[d EXCEPT ![0] = 0] EXCEPT ![1] = 0]
  BY DEF Dealing, Seats
<1>3. 0 \in Seats /\ 1 \in Seats /\ 1 - 0 = 1 /\ 1 - 1 = 0
  BY DEF Seats
<1> HIDE DEF stops
<1>4. QED
  BY <1>1, <1>2, <1>3

LEMMA RidersMirror ==
    ASSUME NEW channels, NEW m, NEW e, NEW d
    PROVE  Riders(channels, Mirror(m), Mirror(e), Mirror(d)) = Mirror(Riders(channels, m, e, d))
<1>1. ASSUME NEW s \in Seats
      PROVE  RidersOf(channels, Mirror(m), Mirror(e), Mirror(d), 1 - s) = RidersOf(channels, m, e, d, s)
  <2>1. Mirror(d)[1 - s] = d[s] /\ Mirror(d)[1 - (1 - s)] = d[1 - s]
    BY DEF Mirror, Both, Seats
  <2>2. \A n \in DOMAIN channels : Rider(channels[n], Mirror(m), Mirror(e), 1 - s, d[s], d[1 - s])
                                   = Rider(channels[n], m, e, s, d[s], d[1 - s])
    BY RiderMirror
  <2>3. QED
    BY <2>1, <2>2 DEF RidersOf
<1>2. /\ RidersOf(channels, Mirror(m), Mirror(e), Mirror(d), 1) = RidersOf(channels, m, e, d, 0)
      /\ RidersOf(channels, Mirror(m), Mirror(e), Mirror(d), 0) = RidersOf(channels, m, e, d, 1)
  <2>1. 1 - 0 = 1 /\ 1 - 1 = 0 /\ 0 \in Seats /\ 1 \in Seats
    BY DEF Seats
  <2>2. QED
    BY <1>1, <2>1
<1>3. QED
  BY <1>2 DEF Riders, Mirror, Both, Seats

LEMMA DealtMirror ==
    ASSUME NEW e, NEW d, NEW b, NEW h \in [Seats -> [DOMAIN Attack -> Nat]]
    PROVE  Dealt(Mirror(e), Mirror(d), Mirror(b), Mirror(h)) = Mirror(Dealt(e, d, b, h))
<1>1. h[0].halve \in Nat /\ h[1].halve \in Nat
  BY DEF Attack, Seats
<1>2. /\ Mirror(e)[0] = e[1] /\ Mirror(e)[1] = e[0] /\ Mirror(d)[0] = d[1] /\ Mirror(d)[1] = d[0]
      /\ Mirror(b)[0] = b[1] /\ Mirror(b)[1] = b[0] /\ Mirror(h)[0] = h[1] /\ Mirror(h)[1] = h[0]
  BY MirrorSwaps
<1>3. h[1].halve + h[0].halve = h[0].halve + h[1].halve
  BY <1>1
<1>4. Dealt(Mirror(e), Mirror(d), Mirror(b), Mirror(h))[0] = Dealt(e, d, b, h)[1]
  BY <1>2, <1>3 DEF Dealt, Both, Seats
<1>5. Dealt(Mirror(e), Mirror(d), Mirror(b), Mirror(h))[1] = Dealt(e, d, b, h)[0]
  BY <1>2, <1>3 DEF Dealt, Both, Seats
<1>6. \A f, g, k : Both(f, g)[0] = f /\ Both(f, g)[1] = g
  BY DEF Both, Seats
<1>7. QED
  <2>1. PICK x, y : Dealt(Mirror(e), Mirror(d), Mirror(b), Mirror(h)) = Both(x, y)
    BY DEF Dealt
  <2>2. x = Dealt(e, d, b, h)[1] /\ y = Dealt(e, d, b, h)[0]
    BY <1>4, <1>5, <1>6, <2>1
  <2>3. QED
    BY <2>1, <2>2 DEF Mirror

\* The exchange of the mirrored meters, y, is that of the meters, x, seen from the other side.
MirrorOf(y, x) == y.dealt = Mirror(x.dealt) /\ y.pierce = Mirror(x.pierce) /\ y.life = Mirror(x.life)

LEMMA ExchangeMirror ==
    ASSUME NEW m, Metered(m), NEW e, Played(e), round \in Int
    PROVE  MirrorOf(Exchange(Mirror(m), Mirror(e)), Exchange(m, e))
<1> DEFINE d0 == Both(damage_dealt(e[0], e[1]), damage_dealt(e[1], e[0]))
           d1 == Unreflected(m, e, d0, 0)
           d2 == Unreflected(m, e, d1, 1)
           b == Both(Bypass(m, e, d0, 0), Bypass(m, e, d1, 1))
           h == Riders(Attack, m, e, d2)
           k1 == Unreflected(Mirror(m), Mirror(e), Mirror(d0), 0)
           k2 == Unreflected(Mirror(m), Mirror(e), k1, 1)
           kb == Both(Bypass(Mirror(m), Mirror(e), Mirror(d0), 0), Bypass(Mirror(m), Mirror(e), k1, 1))
<1>1. 0 \in Seats /\ 1 \in Seats /\ 1 - 0 = 1 /\ 1 - 1 = 0
  BY DEF Seats
<1>2. Dealing(d0)
  BY DamageIn, BothIn DEF Dealing, Played, Seats
<1>3. Both(damage_dealt(Mirror(e)[0], Mirror(e)[1]), damage_dealt(Mirror(e)[1], Mirror(e)[0])) = Mirror(d0)
  BY MirrorSwaps DEF Mirror, Both, Seats
<1>4. Exchange(m, e) = Ridden(e, d2, b, h)
  BY DEF Exchange, Answered, Unanswered, Bypassed
<1>5. Exchange(Mirror(m), Mirror(e)) = Ridden(Mirror(e), k2, kb, Riders(Attack, Mirror(m), Mirror(e), k2))
  BY <1>3 DEF Exchange, Answered, Unanswered, Bypassed
<1> HIDE DEF d0
<1>6. k1 = Mirror(Unreflected(m, e, d0, 1)) /\ Dealing(Unreflected(m, e, d0, 1)) /\ Dealing(d1)
  <2>1. Unreflected(Mirror(m), Mirror(e), Mirror(d0), 1 - 1) = Mirror(Unreflected(m, e, d0, 1))
    BY <1>1, <1>2, UnreflectedMirror
  <2>2. QED
    BY <1>1, <1>2, <2>1, UnreflectedIn
<1>7. k2 = Mirror(d2) /\ Dealing(d2)
  <2>1. Unreflected(Mirror(m), Mirror(e), Mirror(Unreflected(m, e, d0, 1)), 1 - 0)
          = Mirror(Unreflected(m, e, Unreflected(m, e, d0, 1), 0))
    BY <1>1, <1>6, UnreflectedMirror
  <2>2. k2 = Mirror(Unreflected(m, e, Unreflected(m, e, d0, 1), 0))
    BY <1>1, <1>6, <2>1
  <2>3. Dealing(d2)
    BY <1>1, <1>6, UnreflectedIn
  <2>4. QED
    BY <1>2, <2>2, <2>3, UnreflectedOrder
<1>8. kb = Mirror(b)
  <2>1. Bypass(Mirror(m), Mirror(e), Mirror(d0), 1 - 1) = Bypass(m, e, d1, 1)
    BY <1>1, BypassMirror
  <2>2. Bypass(Mirror(m), Mirror(e), k1, 1 - 0) = Bypass(m, e, d0, 0)
    BY <1>1, BypassMirror
  <2>3. kb = Both(Bypass(m, e, d1, 1), Bypass(m, e, d0, 0))
    BY <1>1, <2>1, <2>2
  <2>4. b[0] = Bypass(m, e, d0, 0) /\ b[1] = Bypass(m, e, d1, 1)
    BY DEF Both, Seats
  <2>5. QED
    BY <2>3, <2>4 DEF Mirror
<1>9. h \in [Seats -> [DOMAIN Attack -> Nat]] /\ Riders(Attack, Mirror(m), Mirror(e), Mirror(d2)) = Mirror(h)
  <2>1. h \in [Seats -> [DOMAIN Attack -> Nat]]
    BY <1>7, RidersIn
  <2>2. Riders(Attack, Mirror(m), Mirror(e), Mirror(d2)) = Mirror(h)
    BY RidersMirror
  <2>3. QED
    BY <2>1, <2>2
<1> HIDE DEF d1, d2, b, h, k1, k2, kb
<1>10. Exchange(Mirror(m), Mirror(e)) = Ridden(Mirror(e), Mirror(d2), Mirror(b), Mirror(h))
  BY <1>5, <1>7, <1>8, <1>9
<1>11. /\ Both(Mirror(h)[0].pierce > 0, Mirror(h)[1].pierce > 0) = Mirror(Both(h[0].pierce > 0, h[1].pierce > 0))
       /\ Both(Mirror(h)[0].life > 0, Mirror(h)[1].life > 0) = Mirror(Both(h[0].life > 0, h[1].life > 0))
  BY DEF Mirror, Both, Seats
<1>12. Dealt(Mirror(e), Mirror(d2), Mirror(b), Mirror(h)) = Mirror(Dealt(e, d2, b, h))
  BY <1>9, DealtMirror
<1>13. QED
  BY <1>4, <1>10, <1>11, <1>12 DEF Ridden, MirrorOf

LEMMA AttackedMirror ==
    ASSUME NEW m, NEW x, NEW y, MirrorOf(y, x)
    PROVE  Attacked(Mirror(m), y) = Mirror(Attacked(m, x))
BY DEF MirrorOf, Attacked, Soak, Mirror, Both, Seats

LEMMA HurtMirror ==
    ASSUME NEW m, NEW a
    PROVE  Hurt(Mirror(m), Mirror(a)) = Mirror(Hurt(m, a))
BY DEF Hurt, Mirror, Both, Seats

\* What the steps after the exchange keep alike: all that makes or undoes damage, and the
\* armor as long as none of it comes from energy, where it is asked for (w).
AlikeMeter(r, q, w) ==
    /\ r.hull = q.hull /\ r.hull_prev = q.hull_prev /\ r.dmg_to = q.dmg_to /\ r.heal = q.heal
    /\ r.burn_amt = q.burn_amt /\ r.burn_left = q.burn_left
    /\ r.regen_amt = q.regen_amt /\ r.regen_left = q.regen_left
    /\ w => r.armor = q.armor
Unconverted(a, s) == a[s].convert = 0
Alike(m, n, a) == \A s \in Seats : AlikeMeter(m[s], n[1 - s], Unconverted(a, s))

LEMMA AlikeMirror ==
    ASSUME NEW m, NEW a
    PROVE  Alike(m, Mirror(m), a)
BY MirrorSwaps DEF Alike, AlikeMeter

\* What one Settle makes of the seat it is for, r, with the riders b of that seat.
SettledMeter(r, q, b) ==
    /\ q.hull = r.hull + (IF r.hull < start_hull THEN clampi(b.heal, 0, start_hull - r.hull) ELSE 0)
    /\ q.heal = r.heal + (IF r.hull < start_hull THEN clampi(b.heal, 0, start_hull - r.hull) ELSE 0)
    /\ q.hull_prev = r.hull_prev /\ q.dmg_to = r.dmg_to
    /\ q.hull_start = r.hull_start /\ q.saved = r.saved
    /\ q.burn_amt = r.burn_amt /\ q.regen_amt = r.regen_amt /\ q.regen_left = r.regen_left
    /\ q.burn_left = IF b.cleanse > 0 THEN 0 ELSE r.burn_left
    /\ b.convert = 0 => q.armor = clampi(r.armor + b.armor, 0, DW_ARMOR_MAX)

\* A drain of the other seat leaves these meters alone.
Undisturbed(r, q) ==
    /\ q.hull = r.hull /\ q.hull_prev = r.hull_prev /\ q.dmg_to = r.dmg_to /\ q.heal = r.heal
    /\ q.hull_start = r.hull_start /\ q.saved = r.saved
    /\ q.burn_amt = r.burn_amt /\ q.burn_left = r.burn_left
    /\ q.regen_amt = r.regen_amt /\ q.regen_left = r.regen_left /\ q.armor = r.armor

LEMMA SettleSplit ==
    ASSUME NEW m, Metered(m), NEW a, Riding(a), NEW s \in Seats
    PROVE  /\ SettledMeter(m[s], Settle(m, a, s)[s], a[s])
           /\ Undisturbed(m[1 - s], Settle(m, a, s)[1 - s])
<1> DEFINE healed == IF m[s].hull < start_hull THEN clampi(a[s].heal, 0, start_hull - m[s].hull) ELSE 0
           moved == clampi(a[s].convert, 0, m[s].energy)
           vault == clampi(m[s].vault + a[s].vault - a[s].spend, -100, 99)
           gained == clampi(m[s].armor + a[s].armor, 0, DW_ARMOR_MAX)
           armor == clampi(gained + moved, 0, DW_ARMOR_MAX)
           energy == clampi(m[s].energy - moved + a[s].energy, 0, EnergyCap)
           next_e == clampi(m[s].next_e + a[s].nexte - a[s].nextl, -20, 20)
           credits == IF a[s].debtfree > 0 /\ vault < 0 THEN 0 ELSE vault
           left == IF a[s].cleanse > 0 THEN 0 ELSE m[s].burn_left
           self == [m[s] EXCEPT !.hull = @ + healed, !.heal = @ + healed, !.armor = armor, !.energy = energy,
                                !.next_e = next_e, !.vault = credits, !.burn_left = left]
           energy2 == clampi(m[1 - s].energy - a[s].oenergy, 0, EnergyCap)
           next2 == clampi(m[1 - s].next_e - a[s].onextl, -20, 20)
           vault2 == clampi(m[1 - s].vault - a[s].ospend, -100, 99)
           other == [m[1 - s] EXCEPT !.energy = energy2, !.next_e = next2, !.vault = vault2]
<1>1. Settle(m, a, s)[s] = self /\ Settle(m, a, s)[1 - s] = other
  <2>1. Settle(m, a, s) = [t \in Seats |-> IF t = s THEN self ELSE other]
    BY DEF Settle
  <2> HIDE DEF self, other
  <2>2. 1 - s \in Seats /\ 1 - s # s
    BY DEF Seats
  <2>3. QED
    BY <2>1, <2>2
<1>2. m[s] \in MeterType /\ m[1 - s] \in MeterType
  BY DEF Metered, Seats
<1>3. a[s].convert = 0 => armor = gained
  <2>1. /\ m[s].energy \in 0 .. 6 /\ m[s].armor \in 0 .. 12 /\ a[s].armor \in Nat
    BY MeterFields, RidingFields
  <2>2. gained \in 0 .. 12
    <3>1. m[s].armor + a[s].armor \in Int
      BY <2>1
    <3>2. QED
      BY <3>1, Clamps DEF DW_ARMOR_MAX
  <2> HIDE DEF gained
  <2>3. a[s].convert = 0 => moved = 0
    BY <2>1 DEF clampi
  <2> HIDE DEF moved
  <2>4. clampi(gained + 0, 0, DW_ARMOR_MAX) = gained
    BY <2>2 DEF clampi, DW_ARMOR_MAX
  <2>5. QED
    BY <2>3, <2>4
<1> HIDE DEF healed, armor, gained, energy, next_e, credits, left, energy2, next2, vault2
<1>4. /\ self.hull = m[s].hull + healed /\ self.heal = m[s].heal + healed /\ self.armor = armor
      /\ self.hull_prev = m[s].hull_prev /\ self.dmg_to = m[s].dmg_to
      /\ self.hull_start = m[s].hull_start /\ self.saved = m[s].saved
      /\ self.burn_amt = m[s].burn_amt /\ self.burn_left = left
      /\ self.regen_amt = m[s].regen_amt /\ self.regen_left = m[s].regen_left
  BY <1>2 DEF MeterType
<1>5. Undisturbed(m[1 - s], other)
  BY <1>2 DEF MeterType, Undisturbed
<1> HIDE DEF self, other
<1>6. SettledMeter(m[s], self, a[s])
  BY <1>3, <1>4 DEF SettledMeter, healed, left, gained
<1>7. QED
  BY <1>1, <1>5, <1>6

\* Both orders of the two Settles, on alike meters, leave alike meters.
LEMMA SettlesAlike ==
    ASSUME NEW m, Metered(m), NEW a, Riding(a)
    PROVE  Alike(Settle(Settle(m, a, 0), a, 1), Settle(Settle(Mirror(m), Mirror(a), 0), Mirror(a), 1), a)
<1> DEFINE b == Mirror(a)
           m1 == Settle(m, a, 0)
           m2 == Settle(m1, a, 1)
           n == Mirror(m)
           n1 == Settle(n, b, 0)
           n2 == Settle(n1, b, 1)
<1>1. /\ 0 \in Seats /\ 1 \in Seats /\ 1 - 0 = 1 /\ 1 - 1 = 0
      /\ b[0] = a[1] /\ b[1] = a[0] /\ n[0] = m[1] /\ n[1] = m[0]
  BY MirrorSwaps DEF Seats
<1>2. Metered(n) /\ Riding(b)
  BY MirrorIn DEF Metered, Riding
<1> HIDE DEF n, b
<1>3. Metered(m1) /\ Metered(n1)
  BY <1>1, <1>2, SettleIn
<1>4. SettledMeter(m[0], m1[0], a[0]) /\ Undisturbed(m[1], m1[1])
  BY <1>1, SettleSplit
<1>5. SettledMeter(n[0], n1[0], b[0]) /\ Undisturbed(n[1], n1[1])
  BY <1>1, <1>2, SettleSplit
<1> HIDE DEF m1, n1
<1>6. SettledMeter(m1[1], m2[1], a[1]) /\ Undisturbed(m1[0], m2[0])
  BY <1>1, <1>3, SettleSplit
<1>7. SettledMeter(n1[1], n2[1], b[1]) /\ Undisturbed(n1[0], n2[0])
  BY <1>1, <1>2, <1>3, SettleSplit
<1> HIDE DEF m2, n2
<1>8. AlikeMeter(m2[0], n2[1], Unconverted(a, 0))
  BY <1>1, <1>4, <1>5, <1>6, <1>7 DEF SettledMeter, Undisturbed, AlikeMeter, Unconverted
<1>9. AlikeMeter(m2[1], n2[0], Unconverted(a, 1))
  BY <1>1, <1>4, <1>5, <1>6, <1>7 DEF SettledMeter, Undisturbed, AlikeMeter, Unconverted
<1>10. Alike(m2, n2, a)
  BY <1>1, <1>8, <1>9 DEF Alike, Seats
<1>11. QED
  BY <1>10 DEF m1, m2, n, n1, n2, b

\* Two mirrored lists of riders or of seats with a lifeline, at a seat and at the other
LEMMA Across ==
    ASSUME NEW a, NEW s \in Seats
    PROVE  /\ Mirror(a)[1 - s] = a[s] /\ Mirror(a)[s] = a[1 - s]
           /\ 1 - s \in Seats /\ 1 - (1 - s) = s
BY DEF Mirror, Both, Seats

LEMMA EqualizeAlike ==
    ASSUME NEW m, Metered(m), NEW n, Metered(n), NEW a, Riding(a), Alike(m, n, a)
    PROVE  Alike(Equalize(m, a), Equalize(n, Mirror(a)), a)
<1> DEFINE avg == Half(m[0].hull + m[1].hull + 1)
           After(r) == [r EXCEPT !.hull = clampi(avg, -100, start_hull),
                                 !.dmg_to = @ + Gain(avg, r.hull), !.heal = @ + Gain(r.hull, avg)]
<1>1. /\ 0 \in Seats /\ 1 \in Seats /\ 1 - 0 = 1 /\ 1 - 1 = 0
      /\ Mirror(a)[0] = a[1] /\ Mirror(a)[1] = a[0]
  BY MirrorSwaps DEF Seats
<1>2. m[0].hull = n[1].hull /\ m[1].hull = n[0].hull
  BY <1>1 DEF Alike, AlikeMeter
<1>3. n[0].hull + n[1].hull + 1 = m[0].hull + m[1].hull + 1
  <2>1. m[0].hull \in Int /\ m[1].hull \in Int
    <3>1. m[0].hull \in -100 .. 20 /\ m[1].hull \in -100 .. 20
      BY <1>1, MeterFields
    <3>2. QED
      BY <3>1
  <2>2. QED
    BY <1>2, <2>1
<1>4. a[0].equalize + a[1].equalize = a[1].equalize + a[0].equalize
  BY <1>1, RidingFields
<1>5. /\ Equalize(m, a) = IF a[0].equalize + a[1].equalize > 0 THEN Both(After(m[0]), After(m[1])) ELSE m
      /\ Equalize(n, Mirror(a)) = IF a[0].equalize + a[1].equalize > 0 THEN Both(After(n[0]), After(n[1])) ELSE n
  BY <1>1, <1>3, <1>4 DEF Equalize
<1> HIDE DEF avg
<1>6. ASSUME NEW r \in MeterType, NEW q \in MeterType, NEW w, AlikeMeter(r, q, w)
      PROVE  AlikeMeter(After(r), After(q), w)
  BY <1>6 DEF AlikeMeter, MeterType
<1>7. CASE a[0].equalize + a[1].equalize > 0
  <2>1. ASSUME NEW s \in Seats
        PROVE  AlikeMeter(After(m[s]), After(n[1 - s]), Unconverted(a, s))
    BY <1>6, Across DEF Alike, Metered
  <2>2. \A s \in Seats : Equalize(m, a)[s] = After(m[s]) /\ Equalize(n, Mirror(a))[1 - s] = After(n[1 - s])
    <3>1. Equalize(m, a) = Both(After(m[0]), After(m[1])) /\ Equalize(n, Mirror(a)) = Both(After(n[0]), After(n[1]))
      BY <1>5, <1>7
    <3> HIDE DEF After
    <3>2. QED
      BY <3>1 DEF Both, Seats
  <2> HIDE DEF After
  <2>3. QED
    BY <2>1, <2>2 DEF Alike
<1>8. CASE ~(a[0].equalize + a[1].equalize > 0)
  BY <1>5, <1>8
<1>9. QED
  BY <1>7, <1>8

LEMMA RewindAlike ==
    ASSUME NEW m, Metered(m), NEW n, Metered(n), NEW a, Alike(m, n, a)
    PROVE  Alike(Rewind(m, a), Rewind(n, Mirror(a)), a)
<1> DEFINE Back(r, c) == IF c > 0 THEN Gain(r.hull, r.hull_prev) ELSE 0
           After(r, c) == [r EXCEPT !.hull = @ + Back(r, c), !.heal = @ + Back(r, c)]
<1>1. ASSUME NEW s \in Seats
      PROVE  /\ Rewind(m, a)[s] = After(m[s], a[s].chrono)
             /\ Rewind(n, Mirror(a))[1 - s] = After(n[1 - s], a[s].chrono)
  <2>1. /\ \A t \in Seats : Rewind(m, a)[t] = After(m[t], a[t].chrono)
        /\ \A t \in Seats : Rewind(n, Mirror(a))[t] = After(n[t], Mirror(a)[t].chrono)
    BY DEF Rewind, Both, Seats
  <2> HIDE DEF After
  <2>3. QED
    BY <2>1, Across
<1>2. ASSUME NEW r \in MeterType, NEW q \in MeterType, NEW w, NEW c, AlikeMeter(r, q, w)
      PROVE  AlikeMeter(After(r, c), After(q, c), w)
  BY <1>2 DEF AlikeMeter, MeterType
<1> HIDE DEF After
<1>3. QED
  BY <1>1, <1>2, Across DEF Alike, Metered

LEMMA RescueAlike ==
    ASSUME NEW m, Metered(m), NEW n, Metered(n), NEW a, NEW x, NEW y, MirrorOf(y, x), Alike(m, n, a)
    PROVE  Alike(Rescue(m, x), Rescue(n, y), a)
<1> DEFINE After(r, c) == IF c /\ r.hull <= 0 THEN [r EXCEPT !.hull = 1, !.saved = TRUE] ELSE r
<1>1. ASSUME NEW s \in Seats
      PROVE  /\ Rescue(m, x)[s] = After(m[s], x.life[s])
             /\ Rescue(n, y)[1 - s] = After(n[1 - s], x.life[s])
  <2>1. /\ \A t \in Seats : Rescue(m, x)[t] = After(m[t], x.life[t])
        /\ \A t \in Seats : Rescue(n, y)[t] = After(n[t], y.life[t])
    BY DEF Rescue, Both, Seats
  <2> HIDE DEF After
  <2>2. y.life[1 - s] = x.life[s]
    BY Across DEF MirrorOf
  <2>3. QED
    BY <2>1, <2>2, Across
<1>2. ASSUME NEW r \in MeterType, NEW q \in MeterType, NEW w, NEW c, AlikeMeter(r, q, w)
      PROVE  AlikeMeter(After(r, c), After(q, c), w)
  <2>1. CASE c /\ r.hull <= 0
    BY <1>2, <2>1 DEF AlikeMeter, MeterType
  <2>2. CASE ~(c /\ r.hull <= 0)
    BY <1>2, <2>2 DEF AlikeMeter
  <2>3. QED
    BY <2>1, <2>2
<1> HIDE DEF After
<1>3. QED
  BY <1>1, <1>2, Across DEF Alike, Metered

LEMMA TickAlike ==
    ASSUME NEW m, Metered(m), NEW n, Metered(n), NEW a, Alike(m, n, a)
    PROVE  Alike(Tick(m), Tick(n), a)
<1> DEFINE room(r) == Gain(r.hull, start_hull)
           regen(r) == IF r.regen_left > 0 THEN clampi(r.regen_amt, 0, room(r)) ELSE 0
           burn(r) == IF r.burn_left > 0 THEN r.burn_amt ELSE 0
           After(r) == [r EXCEPT !.hull = clampi(@ + regen(r) - burn(r), -100, start_hull),
                                 !.heal = @ + regen(r), !.dmg_to = @ + burn(r),
                                 !.regen_left = Dec(@), !.burn_left = Dec(@), !.hidden = Dec(@)]
<1>1. ASSUME NEW s \in Seats
      PROVE  Tick(m)[s] = After(m[s]) /\ Tick(n)[1 - s] = After(n[1 - s])
  <2>1. Tick(m) = Both(After(m[0]), After(m[1])) /\ Tick(n) = Both(After(n[0]), After(n[1]))
    BY DEF Tick
  <2> HIDE DEF After
  <2>2. QED
    BY <2>1 DEF Both, Seats
<1>2. ASSUME NEW r \in MeterType, NEW q \in MeterType, NEW w, AlikeMeter(r, q, w)
      PROVE  AlikeMeter(After(r), After(q), w)
  <2>1. regen(r) = regen(q) /\ burn(r) = burn(q)
    BY <1>2 DEF AlikeMeter
  <2> HIDE DEF regen, burn
  <2>2. QED
    BY <1>2, <2>1 DEF AlikeMeter, MeterType
<1> HIDE DEF After
<1>3. QED
  BY <1>1, <1>2, Across DEF Alike, Metered

LEMMA AfflictAlike ==
    ASSUME NEW m, Metered(m), NEW n, Metered(n), NEW a, Alike(m, n, a)
    PROVE  Alike(Afflict(m, a), Afflict(n, Mirror(a)), a)
<1> DEFINE After(r, own, opp) ==
             [r EXCEPT !.burn_amt = IF opp.burn > 0 THEN opp.burn \div 16 ELSE @,
                       !.burn_left = IF opp.burn > 0 THEN opp.burn % 16 ELSE @,
                       !.regen_amt = IF own.regen > 0 THEN own.regen \div 16 ELSE @,
                       !.regen_left = IF own.regen > 0 THEN own.regen % 16 ELSE @,
                       !.hidden = IF own.blind > 0 THEN own.blind ELSE @]
<1>1. ASSUME NEW s \in Seats
      PROVE  /\ Afflict(m, a)[s] = After(m[s], a[s], a[1 - s])
             /\ Afflict(n, Mirror(a))[1 - s] = After(n[1 - s], a[s], a[1 - s])
  <2>1. /\ \A t \in Seats : Afflict(m, a)[t] = After(m[t], a[t], a[1 - t])
        /\ \A t \in Seats : Afflict(n, Mirror(a))[t] = After(n[t], Mirror(a)[t], Mirror(a)[1 - t])
    BY DEF Afflict, Both, Seats
  <2> HIDE DEF After
  <2>2. QED
    BY <2>1, Across
<1>2. ASSUME NEW r \in MeterType, NEW q \in MeterType, NEW w, NEW own, NEW opp, AlikeMeter(r, q, w)
      PROVE  AlikeMeter(After(r, own, opp), After(q, own, opp), w)
  BY <1>2 DEF AlikeMeter, MeterType
<1> HIDE DEF After
<1>3. QED
  BY <1>1, <1>2, Across DEF Alike, Metered

\* The whole resolution: with the seats exchanged the exchange and the damage that follows it
\* are the same, exchanged; from the Settles on the meters are alike.
LEMMA ResolutionAlike ==
    ASSUME NEW m, Metered(m), NEW decl, Played(decl), Affordable(m, decl), round \in Int
    PROVE  Alike(Resolution(m, decl).meters, Resolution(Mirror(m), Mirror(decl)).meters,
                 Resolution(m, decl).riders)
<1> DEFINE paid == Paid(m, decl)
           eff == Effective(paid, Substituted(m, decl))
           x == Exchange(paid, eff)
           hit == Attacked(paid, x)
           a == Riders(Aftermath, hit, eff, x.dealt)
           y == Exchange(Mirror(paid), Mirror(eff))
           b == Riders(Aftermath, Mirror(hit), Mirror(eff), y.dealt)
<1>1. Metered(paid)
  BY PaidIn
<1>2. Played(eff)
  BY SubstitutedIn, EffectiveIn
<1>3. Resolution(m, decl) = Ended(hit, eff, x, a)
  BY DEF Resolution, Opened, Joined, Fought, Followed
<1>4. Resolution(Mirror(m), Mirror(decl))
        = Followed(Attacked(Mirror(paid), y), Mirror(eff), y)
  <2>1. Paid(Mirror(m), Mirror(decl)) = Mirror(paid)
    BY PaidMirror
  <2>2. Effective(Mirror(paid), Substituted(Mirror(m), Mirror(decl))) = Mirror(eff)
    BY SubstitutedMirror, EffectiveMirror
  <2> HIDE DEF paid, eff
  <2>3. QED
    BY <2>1, <2>2 DEF Resolution, Opened, Joined, Fought
<1> HIDE DEF paid, eff
<1>5. MirrorOf(y, x) /\ Dealing(x.dealt)
  BY <1>1, <1>2, ExchangeMirror, ExchangeIn
<1> HIDE DEF x, y
<1>6. Metered(hit) /\ Attacked(Mirror(paid), y) = Mirror(hit)
  BY <1>1, <1>5, AttackedIn, AttackedMirror DEF Exchanged
<1>7. Resolution(Mirror(m), Mirror(decl)) = Ended(Mirror(hit), Mirror(eff), y, b)
  BY <1>4, <1>6 DEF Followed
<1> HIDE DEF hit
<1>8. Riding(a) /\ b = Mirror(a) /\ Riding(Mirror(a))
  <2>1. Riding(a)
    BY <1>2, <1>5, <1>6, RidersIn DEF Riding
  <2>2. b = Mirror(a)
    BY <1>5, RidersMirror DEF MirrorOf
  <2> HIDE DEF a
  <2>3. Riding(Mirror(a))
    BY <2>1, MirrorIn DEF Riding
  <2>4. QED
    BY <2>1, <2>2, <2>3
<1> HIDE DEF a, b
<1> DEFINE m1 == Hurt(hit, a)
           m3 == Settle(Settle(m1, a, 0), a, 1)
           m4 == Rescue(Rewind(Equalize(m3, a), a), x)
           m5 == Rescue(Tick(m4), x)
           n1 == Hurt(Mirror(hit), b)
           n3 == Settle(Settle(n1, b, 0), b, 1)
           n4 == Rescue(Rewind(Equalize(n3, b), b), y)
           n5 == Rescue(Tick(n4), y)
<1>9. Metered(m1) /\ Metered(n1) /\ n1 = Mirror(m1)
  <2>1. Metered(m1)
    BY <1>6, <1>8, HurtIn
  <2>2. n1 = Mirror(m1)
    BY <1>8, HurtMirror
  <2> HIDE DEF m1, n1
  <2>3. QED
    BY <2>1, <2>2, MirrorIn DEF Metered
<1> HIDE DEF m1, n1
<1>10. Metered(m3) /\ Metered(n3) /\ Alike(m3, n3, a)
  BY <1>8, <1>9, SettleIn, SettlesAlike DEF Seats
<1> HIDE DEF m3, n3
<1>11. Metered(m4) /\ Metered(n4) /\ Alike(m4, n4, a)
  <2>1. /\ Metered(Equalize(m3, a)) /\ Metered(Equalize(n3, b))
        /\ Alike(Equalize(m3, a), Equalize(n3, b), a)
    BY <1>8, <1>10, EqualizeIn, EqualizeAlike
  <2>2. /\ Metered(Rewind(Equalize(m3, a), a)) /\ Metered(Rewind(Equalize(n3, b), b))
        /\ Alike(Rewind(Equalize(m3, a), a), Rewind(Equalize(n3, b), b), a)
    BY <1>8, <2>1, RewindIn, RewindAlike
  <2>3. QED
    BY <1>5, <2>2, RescueIn, RescueAlike
<1> HIDE DEF m4, n4
<1>12. Metered(m5) /\ Metered(n5) /\ Alike(m5, n5, a)
  <2>1. Metered(Tick(m4)) /\ Metered(Tick(n4)) /\ Alike(Tick(m4), Tick(n4), a)
    BY <1>11, TickIn, TickAlike
  <2>2. QED
    BY <1>5, <2>1, RescueIn, RescueAlike
<1> HIDE DEF m5, n5
<1>13. Alike(Afflict(m5, a), Afflict(n5, b), a)
  BY <1>8, <1>12, AfflictAlike
<1>14. /\ Ended(hit, eff, x, a).meters = Afflict(m5, a) /\ Ended(hit, eff, x, a).riders = a
       /\ Ended(Mirror(hit), Mirror(eff), y, b).meters = Afflict(n5, b)
  BY DEF Ended, m1, m3, m4, m5, n1, n3, n4, n5
<1>15. QED
  BY <1>3, <1>7, <1>13, <1>14

\* Neither seat is favoured: every round that both seats have locked would give each the same
\* hull, losses, healing and burn, and armor where none comes from energy, in the other seat.
THEOREM NeitherSeatFavoured == Spec => []SeatFair
<1>1. MatchInv => SeatFair
  <2> SUFFICES ASSUME MatchInv, phase = "play"
               PROVE  SeatFair
    BY DEF SeatFair
  <2>1. Metered(meters) /\ round \in Int
    BY DEF MatchInv, TypeOK, Metered
  <2>2. Played(LastCards) /\ Affordable(meters, LastCards)
    BY DeclaredPlays
  <2>3. Alike(Resolved.meters, Resolution(Mirror(meters), Mirror(LastCards)).meters, Resolved.riders)
    BY <2>1, <2>2, ResolutionAlike DEF Resolved
  <2>4. QED
    BY <2>3 DEF Alike, AlikeMeter, Unconverted, SeatFair
<1>2. QED
  BY <1>1, MatchSound, PTL

-----------------------------------------------------------------------------
(***************************************************************************)
(* What a round can cost: the catalog bounds the damage of a card.         *)
(***************************************************************************)

\* The first word of a card, by the channels that touch a hull: damage, what always lands,
\* extra damage, self damage, true damage and burn.
FirstWord(x) ==
    /\ x \in Nat
    /\ fx_ch(x) = 1 => \/ fx_m(x) = 0 /\ fx_aa(x) \in 0 .. 11
                       \/ fx_m(x) \in {1, 2, 4} /\ fx_aa(x) \in {1, 2}
                       \/ fx_m(x) \in {3, 9} /\ fx_aa(x) = 1
    /\ fx_ch(x) = 6 => fx_m(x) = 6 /\ fx_aa(x) \in {3, 5, 10}
    /\ fx_ch(x) \in {3, 21} => fx_m(x) = 0 /\ fx_aa(x) \in 0 .. 6
    /\ fx_ch(x) = 22 => \/ fx_m(x) = 0 /\ fx_aa(x) \in 0 .. 6
                        \/ fx_m(x) = 2 /\ fx_aa(x) = 2
    /\ fx_ch(x) = 32 => fx_m(x) = 0 /\ fx_aa(x) \in 0 .. 50

\* Its second word has constant amounts, and none of extra damage, true damage or burn.
SecondWord(x) ==
    /\ x \in Nat
    /\ fx_ch(x) \notin {6, 22, 32}
    /\ fx_ch(x) \in {1, 3, 21} => fx_m(x) = 0 /\ fx_aa(x) \in 0 .. 5

LEMMA FirstWordIn ==
    ASSUME NEW id \in CardIds
    PROVE  FirstWord(card_fx_a(id))
<1> DEFINE W == {x \in Nat : FirstWord(x)}
<1>1. CASE id < 9
  BY <1>1, SMTT(30) DEF CardIds, num_cards, card_fx_a, base_fx, fx, FirstWord, fx_ch, fx_m, fx_aa
<1>2. CASE id \in 9 .. 104
  <2>1. fxa_lo \in [1 .. 16 -> W]
    BY SMTT(30) DEF fxa_lo, fx, FirstWord, fx_ch, fx_m, fx_aa
  <2>2. fxa_mid \in [1 .. 16 -> W]
    BY SMTT(30) DEF fxa_mid, fx, FirstWord, fx_ch, fx_m, fx_aa
  <2>3. fxa_hi \in [1 .. 16 -> W]
    BY SMTT(30) DEF fxa_hi, fx, FirstWord, fx_ch, fx_m, fx_aa
  <2>4. fxa_top \in [1 .. 16 -> W]
    BY SMTT(30) DEF fxa_top, fx, FirstWord, fx_ch, fx_m, fx_aa
  <2>5. fxa_n1 \in [1 .. 16 -> W]
    BY SMTT(30) DEF fxa_n1, fx, FirstWord, fx_ch, fx_m, fx_aa
  <2>6. fxa_n2 \in [1 .. 16 -> W]
    BY SMTT(30) DEF fxa_n2, fx, FirstWord, fx_ch, fx_m, fx_aa
  <2> HIDE DEF W
  <2>7. card_fx_a(id) \in W
    <3>1. Lookup(id, fxa_lo, fxa_mid, fxa_hi, fxa_top, fxa_n1, fxa_n2) \in W
      BY <1>2, <2>1, <2>2, <2>3, <2>4, <2>5, <2>6, LookupIn
    <3>2. QED
      BY <1>2, <3>1 DEF card_fx_a
  <2>8. QED
    BY <2>7 DEF W
<1>3. QED
  BY <1>1, <1>2 DEF CardIds, num_cards

LEMMA SecondWordIn ==
    ASSUME NEW id \in CardIds
    PROVE  SecondWord(card_fx_b(id))
<1>1. SecondWord(0)
  BY DEF SecondWord, fx_ch
<1>2. CASE id < 21
  <2>1. card_fx_b(id) = 0
    BY <1>2, SMTT(30) DEF card_fx_b, CardIds, num_cards
  <2>2. QED
    BY <1>1, <2>1
<1>3. CASE id \in 21 .. 56
  BY <1>3, SMTT(30) DEF card_fx_b, fxb_lo, fxb_mid, fxb_hi, fx, SecondWord, fx_ch, fx_m, fx_aa
<1>4. CASE id \in 57 .. 72
  BY <1>4, SMTT(30) DEF card_fx_b, fxb_top, fx, SecondWord, fx_ch, fx_m, fx_aa
<1>5. CASE id \in 73 .. 104
  BY <1>5, SMTT(30) DEF card_fx_b, fxb_n1, fxb_n2, fx, SecondWord, fx_ch, fx_m, fx_aa
<1>6. QED
  BY <1>2, <1>3, <1>4, <1>5 DEF CardIds, num_cards

LEMMA PowerLimit ==
    ASSUME NEW id \in Plays
    PROVE  card_power(id) \in 0 .. 14
<1>1. CASE id < 9
  BY <1>1 DEF Plays, CardIds, num_cards, card_power, base_tier
<1>2. CASE id \in 9 .. 104
  <2>1. /\ power_lo \in [1 .. 16 -> 0 .. 14] /\ power_mid \in [1 .. 16 -> 0 .. 14]
        /\ power_hi \in [1 .. 16 -> 0 .. 14] /\ power_top \in [1 .. 16 -> 0 .. 14]
        /\ power_n1 \in [1 .. 16 -> 0 .. 14] /\ power_n2 \in [1 .. 16 -> 0 .. 14]
    BY SMTT(30) DEF power_lo, power_mid, power_hi, power_top, power_n1, power_n2
  <2>2. Lookup(id, power_lo, power_mid, power_hi, power_top, power_n1, power_n2) \in 0 .. 14
    BY <1>2, <2>1, LookupIn
  <2>3. QED
    BY <1>2, <2>2 DEF card_power
<1>3. QED
  BY <1>1, <1>2 DEF Plays, CardIds, num_cards

LEMMA DamageLimit ==
    ASSUME NEW a \in Plays, NEW b \in Plays
    PROVE  damage_dealt(a, b) \in 0 .. 14
<1>1. card_power(a) \in 0 .. 14
  BY PowerLimit
<1>2. QED
  BY <1>1 DEF damage_dealt

LEMMA AmountOf == \A x, c : fx_amount(x, c) \in {0, fx_scale(x, c)}
BY DEF fx_amount

\* Amounts that depend on nothing but the cost of the other card.
LEMMA FirstConstants ==
    ASSUME NEW x, FirstWord(x), NEW c, c.oc \in 0 .. 6
    PROVE  /\ fx_ch(x) \in {3, 21} => fx_amount(x, c) \in 0 .. 6
           /\ fx_ch(x) = 22 => fx_amount(x, c) \in 0 .. 12
           /\ fx_ch(x) = 32 => fx_amount(x, c) \in 0 .. 50
<1>1. CASE fx_m(x) = 0
  <2>1. fx_scale(x, c) = fx_aa(x)
    BY <1>1 DEF fx_scale
  <2>2. QED
    BY <1>1, <2>1, AmountOf DEF FirstWord
<1>2. CASE fx_ch(x) = 22 /\ fx_m(x) = 2 /\ fx_aa(x) = 2
  <2>1. fx_scale(x, c) = 2 * c.oc
    BY <1>2 DEF fx_scale
  <2>2. fx_scale(x, c) \in 0 .. 12
    BY <2>1
  <2>3. QED
    BY <1>2, <2>2, AmountOf
<1>3. QED
  BY <1>1, <1>2 DEF FirstWord

LEMMA SecondConstants ==
    ASSUME NEW x, SecondWord(x), NEW c
    PROVE  /\ fx_ch(x) \notin {6, 22, 32}
           /\ fx_ch(x) \in {1, 3, 21} => fx_amount(x, c) \in 0 .. 5
<1>1. CASE fx_ch(x) \in {1, 3, 21}
  <2>1. fx_scale(x, c) = fx_aa(x) /\ fx_aa(x) \in 0 .. 5
    BY <1>1 DEF fx_scale, SecondWord
  <2>2. QED
    BY <2>1, AmountOf DEF SecondWord
<1>2. QED
  BY <1>1 DEF SecondWord

\* What a context may hold up to round 100.
Limited(c) ==
    /\ c.taken \in 0 .. 14 /\ c.oc \in 0 .. 6 /\ c.oe \in 0 .. 6 /\ c.el \in 0 .. 6
    /\ c.mv \in -100 .. 99 /\ c.rnd \in 0 .. 100

LEMMA FirstDamage ==
    ASSUME NEW x, FirstWord(x), NEW c, Limited(c)
    PROVE  /\ fx_ch(x) = 1 => fx_amount(x, c) \in 0 .. 50
           /\ fx_ch(x) = 6 => fx_amount(x, c) \in 0 .. 14
<1> DEFINE aa == fx_aa(x)
           m == fx_m(x)
<1>1. /\ c.taken \in 0 .. 14 /\ c.oc \in 0 .. 6 /\ c.oe \in 0 .. 6 /\ c.el \in 0 .. 6
      /\ c.mv \in -100 .. 99 /\ c.rnd \in 0 .. 100
  BY DEF Limited
<1>2. fx_scale(x, c) =
         CASE m = 0 -> aa
           [] m = 1 -> aa * c.oe
           [] m = 2 -> aa * c.oc
           [] m = 3 -> (aa * c.rnd) \div 2
           [] m = 4 -> aa * c.el
           [] m = 5 -> IF c.taken < aa THEN c.taken ELSE aa
           [] m = 6 -> (c.taken * aa) \div 10
           [] m = 7 -> (c.dealt * aa) \div 10
           [] m = 8 -> (aa * (20 - c.mh)) \div 4
           [] OTHER -> (aa * (IF c.mv < 0 THEN 0 ELSE c.mv)) \div 2
  BY DEF fx_scale
<1>3. /\ fx_ch(x) = 1 => \/ m = 0 /\ aa \in 0 .. 11
                         \/ m \in {1, 2, 4} /\ aa \in {1, 2}
                         \/ m \in {3, 9} /\ aa = 1
      /\ fx_ch(x) = 6 => m = 6 /\ aa \in {3, 5, 10}
  BY DEF FirstWord
<1> HIDE DEF aa, m
<1>4. CASE fx_ch(x) = 1 /\ m \in {0, 1, 2, 4}
  <2>1. CASE m = 0
    BY <1>2, <1>3, <1>4, <2>1, AmountOf
  <2>2. CASE m \in {1, 2, 4} /\ aa \in {1, 2}
    <3>1. fx_scale(x, c) \in {aa * c.oe, aa * c.oc, aa * c.el}
      BY <1>2, <2>2
    <3>2. aa * c.oe \in 0 .. 12 /\ aa * c.oc \in 0 .. 12 /\ aa * c.el \in 0 .. 12
      BY <1>1, <2>2
    <3>3. QED
      BY <1>4, <3>1, <3>2, AmountOf
  <2>3. QED
    BY <1>3, <1>4, <2>1, <2>2
<1>5. CASE fx_ch(x) = 1 /\ m \in {3, 9} /\ aa = 1
  <2>1. fx_scale(x, c) \in {c.rnd \div 2, (IF c.mv < 0 THEN 0 ELSE c.mv) \div 2}
    BY <1>1, <1>2, <1>5
  <2>2. c.rnd \div 2 \in 0 .. 50 /\ (IF c.mv < 0 THEN 0 ELSE c.mv) \div 2 \in 0 .. 50
    BY <1>1
  <2>3. QED
    BY <1>5, <2>1, <2>2, AmountOf
<1>6. CASE fx_ch(x) = 6
  <2>1. fx_scale(x, c) = (c.taken * aa) \div 10
    BY <1>2, <1>3, <1>6
  <2>2. (c.taken * aa) \div 10 \in 0 .. 14
    BY <1>1, <1>3, <1>6
  <2>3. QED
    BY <1>6, <2>1, <2>2, AmountOf
<1>7. QED
  BY <1>3, <1>4, <1>5, <1>6

\* The limits of what both words of a card add to a channel.
LEMMA RiderConstants ==
    ASSUME NEW m, NEW e, Played(e), NEW s \in Seats, NEW dealt, NEW taken
    PROVE  /\ Rider(3, m, e, s, dealt, taken) \in 0 .. 11
           /\ Rider(21, m, e, s, dealt, taken) \in 0 .. 11
           /\ Rider(22, m, e, s, dealt, taken) \in 0 .. 12
           /\ Rider(32, m, e, s, dealt, taken) \in 0 .. 50
<1> DEFINE c == Context(m, e, s, dealt, taken)
           a == card_fx_a(e[s])
           b == card_fx_b(e[s])
<1>1. CASE e[s] \in CardIds
  <2>1. FirstWord(a) /\ SecondWord(b)
    BY <1>1, FirstWordIn, SecondWordIn
  <2>2. c.oc \in 0 .. 6
    <3>1. e[1 - s] \in Plays
      BY DEF Played, Seats
    <3>2. card_cost(e[1 - s]) \in 0 .. 6
      BY <3>1, CostIn
    <3>3. QED
      BY <3>2 DEF Context
  <2>3. \A ch : Rider(ch, m, e, s, dealt, taken) = Adds(a, ch, c) + Adds(b, ch, c)
    BY <1>1 DEF Rider, CardIds
  <2> HIDE DEF a, b, c
  <2>4. /\ Adds(a, 3, c) \in 0 .. 6 /\ Adds(a, 21, c) \in 0 .. 6
        /\ Adds(a, 22, c) \in 0 .. 12 /\ Adds(a, 32, c) \in 0 .. 50
    BY <2>1, <2>2, FirstConstants DEF Adds
  <2>5. /\ Adds(b, 3, c) \in 0 .. 5 /\ Adds(b, 21, c) \in 0 .. 5
        /\ Adds(b, 22, c) = 0 /\ Adds(b, 32, c) = 0
    BY <2>1, SecondConstants DEF Adds
  <2>6. QED
    BY <2>3, <2>4, <2>5
<1>2. CASE e[s] = -1
  BY <1>2 DEF Rider
<1>3. QED
  BY <1>1, <1>2 DEF Played, Plays

\* The first word adds to one channel: damage and extra damage together.
LEMMA RiderDamage ==
    ASSUME NEW m, Metered(m), NEW e, Played(e), NEW s \in Seats, NEW dealt \in Int, NEW taken \in 0 .. 14,
           round \in 0 .. 100
    PROVE  Rider(1, m, e, s, dealt, taken) + Rider(6, m, e, s, dealt, taken) <= 55
<1> DEFINE c == Context(m, e, s, dealt, taken)
           a == card_fx_a(e[s])
           b == card_fx_b(e[s])
<1>1. CASE e[s] \in CardIds
  <2>1. FirstWord(a) /\ SecondWord(b)
    BY <1>1, FirstWordIn, SecondWordIn
  <2>2. Limited(c)
    <3>1. e[1 - s] \in Plays /\ 1 - s \in Seats
      BY DEF Played, Seats
    <3>2. card_cost(e[1 - s]) \in 0 .. 6
      BY <3>1, CostIn
    <3>3. m[1 - s].energy \in 0 .. 6 /\ m[s].energy \in 0 .. 6 /\ m[s].vault \in -100 .. 99
      BY <3>1, MeterFields
    <3>4. QED
      BY <3>2, <3>3 DEF Context, Limited
  <2>3. \A ch : Rider(ch, m, e, s, dealt, taken) = Adds(a, ch, c) + Adds(b, ch, c)
    BY <1>1 DEF Rider, CardIds
  <2> HIDE DEF a, b, c
  <2>4. /\ Adds(a, 1, c) \in 0 .. 50 /\ Adds(a, 6, c) \in 0 .. 14
        /\ Adds(a, 1, c) = 0 \/ Adds(a, 6, c) = 0
    BY <2>1, <2>2, FirstDamage DEF Adds
  <2>5. Adds(b, 1, c) \in 0 .. 5 /\ Adds(b, 6, c) = 0
    BY <2>1, SecondConstants DEF Adds
  <2>6. QED
    BY <2>3, <2>4, <2>5
<1>2. CASE e[s] = -1
  BY <1>2 DEF Rider
<1>3. QED
  BY <1>1, <1>2 DEF Played, Plays

LEMMA AttackSum ==
    \A hit, damage, extra \in Nat :
        hit <= 14 + damage /\ damage + extra <= 55 => hit + extra \in 0 .. 69
OBVIOUS

LEMMA DealtLimit ==
    ASSUME NEW e, NEW d \in [Seats -> 0 .. 14], NEW b \in [Seats -> 0 .. 11],
           NEW h \in [Seats -> [DOMAIN Attack -> Nat]], \A s \in Seats : h[s].damage + h[s].extra <= 55,
           NEW s \in Seats
    PROVE  Dealt(e, d, b, h)[s] \in 0 .. 69
<1> DEFINE Countered(t) == e[1 - t] >= 0 /\ kind_beats(card_kind(e[1 - t]), card_kind(e[t]))
           Hit(t) == IF Countered(t) THEN d[t] ELSE d[t] + h[t].damage
           Larger(hit, t) == IF b[t] > hit THEN b[t] ELSE hit
           Landed(t) == IF e[t] < 0 THEN 0 ELSE Larger(Hit(t), t) + h[t].extra
           After(t) == CASE h[1 - t].absorb > 0 -> 0
                         [] h[1 - t].absorb = 0 /\ h[0].halve + h[1].halve > 0 -> Landed(t) \div 2
                         [] OTHER -> Landed(t)
<1>1. ASSUME NEW t \in Seats
      PROVE  After(t) \in 0 .. 69
  <2>1. /\ d[t] \in 0 .. 14 /\ b[t] \in 0 .. 11 /\ h[t].damage \in Nat /\ h[t].extra \in Nat
        /\ h[t].damage + h[t].extra <= 55
    BY DEF Attack
  <2>2. Hit(t) \in Nat /\ Hit(t) <= 14 + h[t].damage
    BY <2>1
  <2> HIDE DEF Hit, Countered
  <2>3. Larger(Hit(t), t) \in Nat /\ Larger(Hit(t), t) <= 14 + h[t].damage
    BY <2>1, <2>2
  <2> HIDE DEF Larger
  <2>4. Landed(t) \in 0 .. 69
    <3>1. CASE e[t] < 0
      BY <3>1
    <3>2. CASE ~(e[t] < 0)
      <4>1. Landed(t) = Larger(Hit(t), t) + h[t].extra
        BY <3>2
      <4> HIDE DEF Landed
      <4>2. Larger(Hit(t), t) \in Nat /\ h[t].damage \in Nat /\ h[t].extra \in Nat
        BY <2>1, <2>3
      <4>3. Larger(Hit(t), t) <= 14 + h[t].damage /\ h[t].damage + h[t].extra <= 55
        BY <2>1, <2>3
      <4>4. QED
        BY <4>1, <4>2, <4>3, AttackSum
    <3>3. QED
      BY <3>1, <3>2
  <2> HIDE DEF Landed
  <2>5. Landed(t) \div 2 \in 0 .. 69
    BY <2>4
  <2>6. QED
    BY <2>4, <2>5
<1>2. Dealt(e, d, b, h) = Both(After(0), After(1))
  BY DEF Dealt
<1> HIDE DEF After
<1>3. QED
  BY <1>1, <1>2 DEF Both, Seats

LEMMA ExchangeLimit ==
    ASSUME NEW m, Metered(m), NEW e, Played(e), round \in 0 .. 100, NEW s \in Seats
    PROVE  Exchange(m, e).dealt[s] \in 0 .. 69
<1> DEFINE d0 == Both(damage_dealt(e[0], e[1]), damage_dealt(e[1], e[0]))
           d1 == Unreflected(m, e, d0, 0)
           d2 == Unreflected(m, e, d1, 1)
           b  == Both(Bypass(m, e, d0, 0), Bypass(m, e, d1, 1))
           h  == Riders(Attack, m, e, d2)
<1>1. d0 \in [Seats -> 0 .. 14]
  BY DamageLimit, BothIn DEF Played, Seats
<1>2. \A d \in [Seats -> 0 .. 14] : \A t \in Seats : Unreflected(m, e, d, t) \in [Seats -> 0 .. 14]
  <2>1. ASSUME NEW d \in [Seats -> 0 .. 14], NEW t \in Seats
        PROVE  Unreflected(m, e, d, t) \in [Seats -> 0 .. 14]
    <3>1. Unreflected(m, e, d, t) \in {d, [d EXCEPT ![1 - t] = 0]}
      BY DEF Unreflected
    <3>2. 0 \in 0 .. 14
      OBVIOUS
    <3>3. QED
      BY <3>1, <3>2
  <2>2. QED
    BY <2>1
<1> HIDE DEF d0
<1>3. d1 \in [Seats -> 0 .. 14]
  BY <1>1, <1>2 DEF Seats
<1> HIDE DEF d1
<1>4. d2 \in [Seats -> 0 .. 14]
  BY <1>2, <1>3 DEF Seats
<1> HIDE DEF d2
<1>5. b \in [Seats -> 0 .. 11]
  <2>1. Bypass(m, e, d0, 0) \in 0 .. 11 /\ Bypass(m, e, d1, 1) \in 0 .. 11
    BY RiderConstants DEF Bypass, Seats
  <2>2. QED
    BY <2>1, BothIn
<1>6. h \in [Seats -> [DOMAIN Attack -> Nat]] /\ \A t \in Seats : h[t].damage + h[t].extra <= 55
  <2>1. h \in [Seats -> [DOMAIN Attack -> Nat]]
    <3>1. Dealing(d2) /\ round \in Int
      BY <1>4 DEF Dealing
    <3>2. QED
      BY <3>1, RidersIn
  <2>2. ASSUME NEW t \in Seats
        PROVE  h[t].damage + h[t].extra <= 55
    <3>1. h[t] = RidersOf(Attack, m, e, d2, t)
      BY DEF Riders, Both, Seats
    <3>2. /\ h[t].damage = Rider(1, m, e, t, d2[t], d2[1 - t])
          /\ h[t].extra = Rider(6, m, e, t, d2[t], d2[1 - t])
      BY <3>1 DEF RidersOf, Attack
    <3>3. d2[t] \in Int /\ d2[1 - t] \in 0 .. 14
      BY <1>4 DEF Seats
    <3>4. QED
      BY <3>2, <3>3, RiderDamage
  <2>3. QED
    BY <2>1, <2>2
<1>7. Exchange(m, e) = Ridden(e, d2, b, h)
  BY DEF Exchange, Answered, Unanswered, Bypassed, d0, d1, d2
<1> HIDE DEF b, h
<1>8. Exchange(m, e).dealt = Dealt(e, d2, b, h)
  BY <1>7 DEF Ridden
<1>9. QED
  BY <1>4, <1>5, <1>6, <1>8, DealtLimit
-----------------------------------------------------------------------------
(***************************************************************************)
(* What a round does to a hull, and what its outcome says of it.           *)
(***************************************************************************)

\* Before a card is resolved the outcome of the round is empty.
Fresh(r) ==
    /\ r \in MeterType /\ r.hull_start = r.hull /\ r.hull \in 1 .. 20 /\ r.burn_amt \in 0 .. 3
    /\ r.dmg_to = 0 /\ r.heal = 0 /\ r.saved = FALSE

\* A hull that differs from that of the start of the round was hit or healed.
Noted(r) ==
    /\ r \in MeterType /\ r.hull_start > 0 /\ r.burn_amt \in 0 .. 3
    /\ r.dmg_to \in Nat /\ r.heal \in Nat
    /\ r.hull # r.hull_start => r.dmg_to > 0 \/ r.heal > 0

\* And a hull that is known to be above its least value has been counted exactly.
Exact(r) == r.saved \/ r.hull = r.hull_start - r.dmg_to + r.heal
Traced(r, least) == Noted(r) /\ (least > -100 => r.hull >= least /\ Exact(r))

\* A step that takes lost and gives won.
Moved(r, q, lost, won) ==
    /\ q \in MeterType
    /\ q.hull_start = r.hull_start /\ q.saved = r.saved /\ q.burn_amt = r.burn_amt
    /\ q.dmg_to = r.dmg_to + lost /\ q.heal = r.heal + won
    /\ q.hull = clampi(r.hull - lost + won, -100, 20)

\* The round of r goes on in q.
Follows(r, q, least) == Traced(q, least) /\ q.hull_start = r.hull_start

LEMMA FreshTraced == \A r : Fresh(r) => Traced(r, 1)
BY DEF Fresh, Traced, Noted, Exact, MeterType

LEMMA Moves ==
    ASSUME NEW r, NEW q, NEW lost \in Nat, NEW won \in Nat, NEW least \in Int, NEW bound \in Int,
           Traced(r, least), Moved(r, q, lost, won), r.hull - lost + won <= 20,
           bound > -100 => least > -100 /\ r.hull - lost + won >= bound
    PROVE  Follows(r, q, bound)
<1>1. /\ r \in MeterType /\ r.hull \in -100 .. 20 /\ r.hull_start \in -100 .. 20
      /\ r.dmg_to \in Nat /\ r.heal \in Nat /\ r.burn_amt \in 0 .. 3 /\ r.hull_start > 0
      /\ r.hull # r.hull_start => r.dmg_to > 0 \/ r.heal > 0
  BY DEF Traced, Noted, MeterType, start_hull
<1>2. /\ q \in MeterType /\ q.hull_start = r.hull_start /\ q.saved = r.saved /\ q.burn_amt = r.burn_amt
      /\ q.dmg_to = r.dmg_to + lost /\ q.heal = r.heal + won
      /\ q.hull = clampi(r.hull - lost + won, -100, 20)
  BY DEF Moved
<1>3. Noted(q)
  <2>1. q.dmg_to \in Nat /\ q.heal \in Nat
    BY <1>1, <1>2
  <2>2. ASSUME q.hull # q.hull_start
        PROVE  q.dmg_to > 0 \/ q.heal > 0
    <3>1. CASE lost = 0 /\ won = 0
      <4>1. r.hull - lost + won = r.hull
        BY <1>1, <3>1
      <4>2. q.hull = r.hull
        BY <1>1, <1>2, <4>1 DEF clampi
      <4>3. r.dmg_to > 0 \/ r.heal > 0
        BY <1>1, <1>2, <2>2, <4>2
      <4>4. QED
        BY <1>1, <1>2, <3>1, <4>3
    <3>2. CASE lost > 0 \/ won > 0
      BY <1>1, <1>2, <3>2
    <3>3. QED
      BY <3>1, <3>2
  <2>3. QED
    BY <1>1, <1>2, <2>1, <2>2 DEF Noted
<1>4. ASSUME bound > -100
      PROVE  q.hull >= bound /\ Exact(q)
  <2>1. r.hull - lost + won >= bound /\ r.hull - lost + won \in Int /\ Exact(r)
    BY <1>1, <1>4 DEF Traced
  <2>2. q.hull = r.hull - lost + won
    BY <1>2, <1>4, <2>1 DEF clampi
  <2>3. q.hull >= bound
    BY <2>1, <2>2
  <2>4. CASE r.saved
    BY <1>2, <2>3, <2>4 DEF Exact
  <2>5. CASE r.hull = r.hull_start - r.dmg_to + r.heal
    <3>1. q.hull = q.hull_start - q.dmg_to + q.heal
      BY <1>1, <1>2, <2>2, <2>5
    <3>2. QED
      BY <2>3, <3>1 DEF Exact
  <2>6. QED
    BY <2>1, <2>4, <2>5 DEF Exact
<1>5. QED
  BY <1>2, <1>3, <1>4 DEF Traced, Follows

\* Nothing but the fields a step names is touched.
LEMMA FreshPaid ==
    ASSUME NEW m, Metered(m), NEW decl, Played(decl), Affordable(m, decl), NEW s \in Seats, Fresh(m[s])
    PROVE  Fresh(Paid(m, decl)[s]) /\ Paid(m, decl)[s].hull_start = m[s].hull_start
<1>1. Paid(m, decl)[s] \in MeterType
  BY PaidIn DEF Metered
<1> DEFINE energy(t) == energy_after_play(m[t].energy, decl[t]) % 256
           vault(t) == IF decl[t] >= 0 THEN clampi(m[t].vault - card_credit(decl[t]), -100, 99) ELSE m[t].vault
<1>2. Paid(m, decl)[s] = [m[s] EXCEPT !.energy = energy(s), !.vault = vault(s)]
  BY DEF Paid, Both, Seats
<1> HIDE DEF energy, vault
<1>3. QED
  BY <1>1, <1>2 DEF Fresh, MeterType

LEMMA AttackTraced ==
    ASSUME NEW m, Metered(m), NEW x, Exchanged(x), NEW s \in Seats, Fresh(m[s]),
           NEW most \in Int, x.dealt[1 - s] <= most
    PROVE  Follows(m[s], Attacked(m, x)[s], 1 - most)
<1> DEFINE soak == Soak(m, x, s)
           lost == x.dealt[1 - s] - soak
           q == Attacked(m, x)[s]
<1>1. x.dealt[1 - s] \in Nat /\ m[s].armor \in 0 .. 12 /\ m[s].hull \in 1 .. 20
  BY MeterFields DEF Exchanged, Dealing, Seats, Fresh
<1>2. soak \in 0 .. x.dealt[1 - s]
  BY <1>1 DEF Soak
<1>3. q \in MeterType
  BY AttackedIn DEF Metered
<1>4. q = [m[s] EXCEPT !.armor = @ - soak, !.hull = clampi(@ - lost, -100, start_hull),
                       !.dmg_to = lost, !.heal = 0, !.saved = FALSE]
  BY DEF Attacked, Both, Seats
<1> HIDE DEF soak, q
<1>5. lost \in Nat /\ lost <= most
  BY <1>1, <1>2
<1> HIDE DEF lost
<1>6. /\ q.hull_start = m[s].hull_start /\ q.saved = FALSE /\ q.burn_amt = m[s].burn_amt
      /\ q.dmg_to = lost /\ q.heal = 0 /\ q.hull = clampi(m[s].hull - lost, -100, 20)
  BY <1>4 DEF Fresh, MeterType, start_hull
<1>7. m[s].dmg_to = 0 /\ m[s].heal = 0 /\ m[s].saved = FALSE
  BY DEF Fresh
<1>8. /\ m[s].hull - lost + 0 = m[s].hull - lost /\ m[s].hull - lost + 0 <= 20
      /\ m[s].dmg_to + lost = lost /\ m[s].heal + 0 = 0
  BY <1>1, <1>5, <1>7
<1>9. Moved(m[s], q, lost, 0)
  BY <1>3, <1>6, <1>7, <1>8 DEF Moved
<1>10. m[s].hull - lost + 0 >= 1 - most /\ 1 > -100 /\ 1 \in Int /\ 1 - most \in Int /\ 0 \in Nat
  BY <1>1, <1>5
<1>11. Traced(m[s], 1)
  BY FreshTraced
<1>12. Follows(m[s], q, 1 - most)
  BY <1>5, <1>8, <1>9, <1>10, <1>11, Moves
<1>13. QED
  BY <1>12 DEF q
\* What the catalog lets the riders of the aftermath take from a hull.
Bounded(a) ==
    Riding(a) /\ \A s \in Seats : a[s].selfdmg <= 11 /\ a[s].truedmg <= 12 /\ a[s].burn <= 50

LEMMA RidersBounded ==
    ASSUME NEW m, Metered(m), NEW e, Played(e), NEW d, Dealing(d), round \in Int
    PROVE  Bounded(Riders(Aftermath, m, e, d))
<1> DEFINE a == Riders(Aftermath, m, e, d)
<1>1. Riding(a)
  BY RidersIn DEF Riding
<1>2. ASSUME NEW s \in Seats
      PROVE  a[s].selfdmg <= 11 /\ a[s].truedmg <= 12 /\ a[s].burn <= 50
  <2>1. a[s] = RidersOf(Aftermath, m, e, d, s)
    BY DEF Riders, Both, Seats
  <2>2. /\ a[s].selfdmg = Rider(21, m, e, s, d[s], d[1 - s])
        /\ a[s].truedmg = Rider(22, m, e, s, d[s], d[1 - s])
        /\ a[s].burn = Rider(32, m, e, s, d[s], d[1 - s])
    BY <2>1 DEF RidersOf, Aftermath
  <2> HIDE DEF a
  <2>3. QED
    BY <2>2, RiderConstants
<1>3. QED
  BY <1>1, <1>2 DEF Bounded

LEMMA HurtTraced ==
    ASSUME NEW m, Metered(m), NEW a, Bounded(a), NEW s \in Seats, NEW least \in Int, Traced(m[s], least)
    PROVE  Follows(m[s], Hurt(m, a)[s], least - 23)
<1> DEFINE lost == a[s].selfdmg + a[1 - s].truedmg
           q == Hurt(m, a)[s]
<1>1. lost \in Nat /\ lost <= 23
  <2>1. 1 - s \in Seats
    BY DEF Seats
  <2>2. /\ a[s].selfdmg \in Nat /\ a[1 - s].truedmg \in Nat
        /\ a[s].selfdmg <= 11 /\ a[1 - s].truedmg <= 12
    BY <2>1, RidingFields DEF Bounded
  <2>3. QED
    BY <2>2
<1>2. q \in MeterType
  BY HurtIn DEF Metered, Bounded
<1>3. q = [m[s] EXCEPT !.hull = clampi(@ - lost, -100, start_hull), !.dmg_to = @ + lost]
  BY DEF Hurt, Both, Seats
<1> HIDE DEF lost, q
<1>4. m[s].hull \in -100 .. 20 /\ m[s].heal \in Int
  BY MeterFields
<1>5. m[s].hull - lost + 0 = m[s].hull - lost /\ m[s].hull - lost + 0 <= 20 /\ m[s].heal + 0 = m[s].heal
  BY <1>1, <1>4
<1>6. /\ q.hull_start = m[s].hull_start /\ q.saved = m[s].saved /\ q.burn_amt = m[s].burn_amt
      /\ q.dmg_to = m[s].dmg_to + lost /\ q.heal = m[s].heal
      /\ q.hull = clampi(m[s].hull - lost, -100, 20)
  BY <1>3, MeterFields DEF MeterType, start_hull
<1>7. Moved(m[s], q, lost, 0)
  BY <1>2, <1>5, <1>6 DEF Moved
<1>8. least - 23 > -100 => least > -100 /\ m[s].hull - lost + 0 >= least - 23
  BY <1>1, <1>4 DEF Traced
<1>9. 0 \in Nat /\ least - 23 \in Int
  OBVIOUS
<1>10. Follows(m[s], q, least - 23)
  BY <1>1, <1>5, <1>7, <1>8, <1>9, Moves
<1>11. QED
  BY <1>10 DEF q

LEMMA Raised ==
    ASSUME NEW hull \in -100 .. 20, NEW won \in Nat, won <= 20 - hull, NEW dmg \in Int
    PROVE  hull - 0 + won = hull + won /\ hull + won \in -100 .. 20 /\ dmg + 0 = dmg
OBVIOUS

LEMMA SettleTraced ==
    ASSUME NEW m, Metered(m), NEW a, Riding(a), NEW s \in Seats, NEW t \in Seats,
           NEW least \in Int, Traced(m[t], least)
    PROVE  Follows(m[t], Settle(m, a, s)[t], least)
<1> DEFINE q == Settle(m, a, s)[t]
           healed == IF m[s].hull < start_hull THEN clampi(a[s].heal, 0, start_hull - m[s].hull) ELSE 0
           won == IF t = s THEN healed ELSE 0
<1>1. q \in MeterType
  BY SettleIn DEF Metered
<1>2. m[t] \in MeterType /\ m[t].hull \in -100 .. 20 /\ m[t].dmg_to \in Int /\ m[t].heal \in Int
  BY MeterFields
<1>3. won \in Nat /\ won <= 20 - m[t].hull
  <2>1. m[s].hull \in -100 .. 20 /\ a[s].heal \in Nat
    BY MeterFields, RidingFields
  <2>2. healed \in Nat /\ healed <= 20 - m[s].hull
    BY <2>1 DEF clampi, start_hull
  <2> HIDE DEF healed
  <2>3. QED
    BY <1>2, <2>2
<1>4. /\ q.hull_start = m[t].hull_start /\ q.saved = m[t].saved /\ q.burn_amt = m[t].burn_amt
      /\ q.dmg_to = m[t].dmg_to /\ q.heal = m[t].heal + won /\ q.hull = m[t].hull + won
  <2>1. CASE t = s
    <3>1. SettledMeter(m[s], q, a[s])
      BY <2>1, SettleSplit
    <3> HIDE DEF q
    <3>2. QED
      BY <2>1, <3>1 DEF SettledMeter
  <2>2. CASE t # s
    <3>1. won = 0 /\ t = 1 - s
      BY <2>2 DEF Seats
    <3>2. Undisturbed(m[t], q)
      BY <3>1, SettleSplit
    <3>3. m[t].hull + 0 = m[t].hull /\ m[t].heal + 0 = m[t].heal
      BY <1>2
    <3> HIDE DEF won, q
    <3>4. QED
      BY <3>1, <3>2, <3>3 DEF Undisturbed
  <2>3. QED
    BY <2>1, <2>2
<1> HIDE DEF q, won
<1>5. m[t].hull - 0 + won = m[t].hull + won /\ m[t].hull + won \in -100 .. 20 /\ m[t].dmg_to + 0 = m[t].dmg_to
  BY <1>2, <1>3, Raised
<1>6. clampi(m[t].hull + won, -100, 20) = m[t].hull + won
  BY <1>5 DEF clampi
<1>7. Moved(m[t], q, 0, won)
  BY <1>1, <1>4, <1>5, <1>6 DEF Moved
<1>8. least > -100 => least > -100 /\ m[t].hull - 0 + won >= least
  BY <1>2, <1>3 DEF Traced
<1>9. 0 \in Nat /\ m[t].hull - 0 + won <= 20
  BY <1>5
<1>10. Follows(m[t], q, least)
  BY <1>3, <1>7, <1>8, <1>9, Moves
<1>11. QED
  BY <1>10 DEF q
LEMMA GainMoves == \A x, y \in Int : x - Gain(y, x) + Gain(x, y) = y
BY DEF Gain

LEMMA HalfBetween ==
    ASSUME NEW x \in Int, NEW y \in Int, NEW least \in Int, x >= least, y >= least
    PROVE  Half(x + y + 1) \in Int /\ Half(x + y + 1) >= least
<1> DEFINE n == x + y + 1
<1>1. n \in Int /\ n >= 2 * least + 1
  OBVIOUS
<1> HIDE DEF n
<1>2. CASE n >= 0
  BY <1>1, <1>2 DEF Half, n
<1>3. CASE ~(n >= 0)
  <2>1. (-n) \div 2 \in Int /\ 2 * ((-n) \div 2) <= -n
    BY <1>1
  <2>2. -((-n) \div 2) \in Int /\ -((-n) \div 2) >= least
    BY <1>1, <2>1
  <2>3. QED
    BY <1>3, <2>2 DEF Half, n
<1>4. QED
  BY <1>2, <1>3

LEMMA HalfBelow ==
    ASSUME NEW x \in Int, NEW y \in Int, x <= 20, y <= 20
    PROVE  Half(x + y + 1) <= 20
<1> DEFINE n == x + y + 1
<1>1. n \in Int /\ n <= 41
  OBVIOUS
<1> HIDE DEF n
<1>2. CASE n >= 0
  BY <1>1, <1>2 DEF Half, n
<1>3. CASE ~(n >= 0)
  <2>1. (-n) \div 2 \in Nat
    BY <1>1, <1>3
  <2>2. -((-n) \div 2) <= 20
    BY <2>1
  <2>3. QED
    BY <1>3, <2>2 DEF Half, n
<1>4. QED
  BY <1>2, <1>3

LEMMA EqualizeTraced ==
    ASSUME NEW m, Metered(m), NEW a, NEW s \in Seats,
           NEW least \in Int, \A t \in Seats : Traced(m[t], least)
    PROVE  Follows(m[s], Equalize(m, a)[s], least)
<1> DEFINE avg == Half(m[0].hull + m[1].hull + 1)
           q == Equalize(m, a)[s]
           lost == Gain(avg, m[s].hull)
           won == Gain(m[s].hull, avg)
<1>1. CASE a[0].equalize + a[1].equalize > 0
  <2>1. q \in MeterType
    BY EqualizeIn DEF Metered
  <2>2. /\ m[0].hull \in -100 .. 20 /\ m[1].hull \in -100 .. 20
        /\ m[s] \in MeterType /\ m[s].hull \in -100 .. 20
    BY MeterFields, 0 \in Seats, 1 \in Seats DEF Seats
  <2>3. avg \in -100 .. 20 /\ (least > -100 => avg >= least)
    <3>1. avg \in -100 .. 20
      <4>1. m[0].hull \in Int /\ m[1].hull \in Int /\ -100 \in Int
        BY <2>2
      <4>2. /\ m[0].hull >= -100 /\ m[1].hull >= -100 /\ m[0].hull <= 20 /\ m[1].hull <= 20
        BY <2>2
      <4>3. avg \in Int /\ avg >= -100 /\ avg <= 20
        BY <4>1, <4>2, HalfBetween, HalfBelow
      <4> HIDE DEF avg
      <4>4. QED
        BY <4>3
    <3>2. ASSUME least > -100
          PROVE  avg >= least
      <4>1. m[0].hull >= least /\ m[1].hull >= least
        BY <3>2 DEF Traced, Seats
      <4>2. m[0].hull \in Int /\ m[1].hull \in Int
        BY <2>2
      <4>3. QED
        BY <4>1, <4>2, HalfBetween
    <3>3. QED
      BY <3>1, <3>2
  <2>4. q = [m[s] EXCEPT !.hull = clampi(avg, -100, start_hull), !.dmg_to = @ + lost, !.heal = @ + won]
    BY <1>1 DEF Equalize, Both, Seats
  <2> HIDE DEF avg
  <2>5. lost \in Nat /\ won \in Nat /\ m[s].hull - lost + won = avg
    <3>1. avg \in Int /\ m[s].hull \in Int
      BY <2>2, <2>3
    <3>2. QED
      BY <3>1, GainIn, GainMoves
  <2> HIDE DEF lost, won, q
  <2>6. /\ q.hull_start = m[s].hull_start /\ q.saved = m[s].saved /\ q.burn_amt = m[s].burn_amt
        /\ q.dmg_to = m[s].dmg_to + lost /\ q.heal = m[s].heal + won
        /\ q.hull = clampi(m[s].hull - lost + won, -100, 20)
    BY <2>2, <2>4, <2>5 DEF MeterType, start_hull
  <2>7. Moved(m[s], q, lost, won)
    BY <2>1, <2>6 DEF Moved
  <2>8. least > -100 => least > -100 /\ m[s].hull - lost + won >= least
    BY <2>3, <2>5
  <2>9. m[s].hull - lost + won <= 20
    BY <2>3, <2>5
  <2>10. Follows(m[s], q, least)
    BY <2>5, <2>7, <2>8, <2>9, Moves
  <2>11. QED
    BY <2>10 DEF q
<1>2. CASE ~(a[0].equalize + a[1].equalize > 0)
  BY <1>2 DEF Equalize, Follows
<1>3. QED
  BY <1>1, <1>2

LEMMA RewindTraced ==
    ASSUME NEW m, Metered(m), NEW a, NEW s \in Seats, NEW least \in Int, Traced(m[s], least)
    PROVE  Follows(m[s], Rewind(m, a)[s], least)
<1> DEFINE won == IF a[s].chrono > 0 THEN Gain(m[s].hull, m[s].hull_prev) ELSE 0
           q == Rewind(m, a)[s]
<1>1. q \in MeterType
  BY RewindIn DEF Metered
<1>2. /\ m[s] \in MeterType /\ m[s].hull \in -100 .. 20 /\ m[s].hull_prev \in -100 .. 20 /\ m[s].dmg_to \in Int
  BY MeterFields
<1>3. won \in Nat /\ m[s].hull + won \in -100 .. 20
  <2>1. m[s].hull \in Int /\ m[s].hull_prev \in Int
    BY <1>2
  <2>2. won \in {0, Gain(m[s].hull, m[s].hull_prev)}
    OBVIOUS
  <2> HIDE DEF won
  <2>3. CASE won = 0
    BY <1>2, <2>3
  <2>4. CASE won = Gain(m[s].hull, m[s].hull_prev)
    <3>1. won \in Nat /\ m[s].hull + won \in {m[s].hull, m[s].hull_prev}
      BY <2>1, <2>4, GainIn
    <3>2. QED
      BY <1>2, <3>1
  <2>5. QED
    BY <2>2, <2>3, <2>4
<1>4. q = [m[s] EXCEPT !.hull = @ + won, !.heal = @ + won]
  BY DEF Rewind, Both, Seats
<1> HIDE DEF won, q
<1>5. /\ q.hull_start = m[s].hull_start /\ q.saved = m[s].saved /\ q.burn_amt = m[s].burn_amt
      /\ q.dmg_to = m[s].dmg_to /\ q.heal = m[s].heal + won /\ q.hull = m[s].hull + won
  BY <1>2, <1>4 DEF MeterType
<1>6. m[s].hull - 0 + won = m[s].hull + won /\ m[s].dmg_to + 0 = m[s].dmg_to
  BY <1>2, <1>3
<1>7. clampi(m[s].hull + won, -100, 20) = m[s].hull + won
  BY <1>3 DEF clampi
<1>8. Moved(m[s], q, 0, won)
  BY <1>1, <1>5, <1>6, <1>7 DEF Moved
<1>9. least > -100 => least > -100 /\ m[s].hull - 0 + won >= least
  BY <1>2, <1>3 DEF Traced
<1>10. 0 \in Nat /\ m[s].hull - 0 + won <= 20
  BY <1>3, <1>6
<1>11. Follows(m[s], q, least)
  BY <1>3, <1>8, <1>9, <1>10, Moves
<1>12. QED
  BY <1>11 DEF q

\* A hull that lifeline sets was hit, or healed, before.
LEMMA RescueTraced ==
    ASSUME NEW m, Metered(m), NEW x, NEW s \in Seats, NEW least \in Int, least <= 1, Traced(m[s], least)
    PROVE  Follows(m[s], Rescue(m, x)[s], least)
<1> DEFINE q == Rescue(m, x)[s]
<1>1. q \in MeterType
  BY RescueIn DEF Metered
<1>2. q = m[s] \/ (q = [m[s] EXCEPT !.hull = 1, !.saved = TRUE] /\ m[s].hull <= 0)
  BY DEF Rescue, Both, Seats
<1>3. m[s] \in MeterType
  BY MeterFields
<1> HIDE DEF q
<1>4. CASE q = [m[s] EXCEPT !.hull = 1, !.saved = TRUE] /\ m[s].hull <= 0
  <2>1. /\ q.hull = 1 /\ q.saved = TRUE /\ q.hull_start = m[s].hull_start /\ q.burn_amt = m[s].burn_amt
        /\ q.dmg_to = m[s].dmg_to /\ q.heal = m[s].heal
    BY <1>3, <1>4 DEF MeterType
  <2>2. m[s].hull # m[s].hull_start
    BY <1>3, <1>4 DEF Traced, Noted, MeterType
  <2>3. Noted(q)
    BY <1>1, <2>1, <2>2 DEF Traced, Noted
  <2>4. q.hull >= least /\ Exact(q)
    BY <2>1 DEF Exact
  <2>5. QED
    BY <2>1, <2>3, <2>4 DEF Traced, Follows, q
<1>5. CASE q = m[s]
  BY <1>5 DEF Follows, q
<1>6. QED
  BY <1>2, <1>4, <1>5

LEMMA TickTraced ==
    ASSUME NEW m, Metered(m), NEW s \in Seats, NEW least \in Int, Traced(m[s], least)
    PROVE  Follows(m[s], Tick(m)[s], least - 3)
<1> DEFINE room == Gain(m[s].hull, start_hull)
           won == IF m[s].regen_left > 0 THEN clampi(m[s].regen_amt, 0, room) ELSE 0
           lost == IF m[s].burn_left > 0 THEN m[s].burn_amt ELSE 0
           q == Tick(m)[s]
           regen_left == Dec(m[s].regen_left)
           burn_left == Dec(m[s].burn_left)
           hidden == Dec(m[s].hidden)
<1>1. q \in MeterType
  BY TickIn DEF Metered
<1>2. m[s] \in MeterType /\ m[s].hull \in -100 .. 20 /\ m[s].regen_amt \in Int
  BY MeterFields
<1>3. won \in Nat /\ won <= 20 - m[s].hull
  <2>1. room = 20 - m[s].hull
    BY <1>2 DEF Gain, start_hull
  <2> HIDE DEF room
  <2>2. clampi(m[s].regen_amt, 0, room) \in 0 .. room
    BY <1>2, <2>1, Clamps DEF clampi
  <2>3. QED
    BY <1>2, <2>1, <2>2
<1>4. lost \in 0 .. 3
  BY DEF Traced, Noted
<1>5. q = [m[s] EXCEPT !.hull = clampi(@ + won - lost, -100, start_hull), !.heal = @ + won, !.dmg_to = @ + lost,
                       !.regen_left = regen_left, !.burn_left = burn_left, !.hidden = hidden]
  BY DEF Tick, Both, Seats
<1> HIDE DEF won, lost, q, regen_left, burn_left, hidden
<1>6. m[s].hull - lost + won = m[s].hull + won - lost /\ m[s].hull - lost + won <= 20
  BY <1>2, <1>3, <1>4
<1>7. /\ q.hull_start = m[s].hull_start /\ q.saved = m[s].saved /\ q.burn_amt = m[s].burn_amt
      /\ q.dmg_to = m[s].dmg_to + lost /\ q.heal = m[s].heal + won
      /\ q.hull = clampi(m[s].hull + won - lost, -100, 20)
  BY <1>2, <1>5 DEF MeterType, start_hull
<1>8. Moved(m[s], q, lost, won)
  BY <1>1, <1>6, <1>7 DEF Moved
<1>9. least - 3 > -100 => least > -100 /\ m[s].hull - lost + won >= least - 3
  BY <1>2, <1>3, <1>4 DEF Traced
<1>10. lost \in Nat /\ least - 3 \in Int
  BY <1>4
<1>11. Follows(m[s], q, least - 3)
  BY <1>3, <1>6, <1>8, <1>9, <1>10, Moves
<1>12. QED
  BY <1>11 DEF q

\* Amount and rounds of a burn: 35 and 50 are 2 and 3 a round.
LEMMA AfflictTraced ==
    ASSUME NEW m, Metered(m), NEW a, Bounded(a), NEW s \in Seats, NEW least \in Int, Traced(m[s], least)
    PROVE  Follows(m[s], Afflict(m, a)[s], least)
<1> DEFINE burn_amt == IF a[1 - s].burn > 0 THEN a[1 - s].burn \div 16 ELSE m[s].burn_amt
           burn_left == IF a[1 - s].burn > 0 THEN a[1 - s].burn % 16 ELSE m[s].burn_left
           regen_amt == IF a[s].regen > 0 THEN a[s].regen \div 16 ELSE m[s].regen_amt
           regen_left == IF a[s].regen > 0 THEN a[s].regen % 16 ELSE m[s].regen_left
           hidden == IF a[s].blind > 0 THEN a[s].blind ELSE m[s].hidden
           q == Afflict(m, a)[s]
<1>1. q \in MeterType
  BY AfflictIn DEF Metered, Bounded
<1>2. burn_amt \in 0 .. 3
  <2>1. 1 - s \in Seats
    BY DEF Seats
  <2>2. a[1 - s].burn \in Nat /\ a[1 - s].burn <= 50
    BY <2>1, RidingFields DEF Bounded
  <2>3. m[s].burn_amt \in 0 .. 3
    BY DEF Traced, Noted
  <2>4. QED
    BY <2>2, <2>3
<1>3. q = [m[s] EXCEPT !.burn_amt = burn_amt, !.burn_left = burn_left, !.regen_amt = regen_amt,
                       !.regen_left = regen_left, !.hidden = hidden]
  BY DEF Afflict, Both, Seats
<1> HIDE DEF q, burn_amt, burn_left, regen_amt, regen_left, hidden
<1>4. /\ q.hull_start = m[s].hull_start /\ q.saved = m[s].saved /\ q.burn_amt = burn_amt
      /\ q.dmg_to = m[s].dmg_to /\ q.heal = m[s].heal /\ q.hull = m[s].hull
  BY <1>3, MeterFields DEF MeterType
<1>5. Traced(q, least)
  BY <1>1, <1>2, <1>4 DEF Traced, Noted, Exact
<1>6. QED
  BY <1>4, <1>5 DEF Follows, q
\* A whole round takes at most 69 by the attack, 23 by self and true damage and 3 by burn:
\* no hull gets below -94, so no clamp at -100 hides a loss.
LEMMA ResolutionTraced ==
    ASSUME NEW m, Metered(m), NEW decl, Played(decl), Affordable(m, decl), round \in Nat,
           \A s \in Seats : Fresh(m[s])
    PROVE  \E least \in Int : /\ round <= 100 => least >= -94
                              /\ \A s \in Seats : Follows(m[s], Resolution(m, decl).meters[s], least)
<1> DEFINE paid == Paid(m, decl)
           eff == Effective(paid, Substituted(m, decl))
           x == Exchange(paid, eff)
           hit == Attacked(paid, x)
           a == Riders(Aftermath, hit, eff, x.dealt)
<1>1. Metered(paid) /\ \A s \in Seats : Fresh(paid[s]) /\ paid[s].hull_start = m[s].hull_start
  BY PaidIn, FreshPaid
<1>2. Played(eff)
  BY SubstitutedIn, EffectiveIn
<1>3. Resolution(m, decl) = Ended(hit, eff, x, a)
  BY DEF Resolution, Opened, Joined, Fought, Followed
<1> HIDE DEF paid, eff
<1>4. Dealing(x.dealt) /\ Exchanged(x)
  <2>1. round \in Int
    OBVIOUS
  <2>2. QED
    BY <1>1, <1>2, <2>1, ExchangeIn DEF Exchanged
<1>5. round <= 100 => \A s \in Seats : x.dealt[s] \in 0 .. 69
  BY <1>1, <1>2, ExchangeLimit
<1> HIDE DEF x
<1>6. PICK most \in Nat : (round <= 100 => most = 69) /\ \A s \in Seats : x.dealt[1 - s] <= most
  <2>1. 0 \in Seats /\ 1 \in Seats /\ 1 - 0 = 1 /\ 1 - 1 = 0
    BY DEF Seats
  <2>2. x.dealt[0] \in Nat /\ x.dealt[1] \in Nat
    BY <1>4, <2>1 DEF Dealing
  <2>3. CASE round <= 100
    <3>1. 69 \in Nat /\ \A s \in Seats : x.dealt[1 - s] <= 69
      BY <1>5, <2>1, <2>3 DEF Seats
    <3>2. QED
      BY <3>1
  <2>4. CASE ~(round <= 100)
    <3>1. /\ x.dealt[0] + x.dealt[1] \in Nat
          /\ x.dealt[0] <= x.dealt[0] + x.dealt[1] /\ x.dealt[1] <= x.dealt[0] + x.dealt[1]
      BY <2>2
    <3>2. \A s \in Seats : x.dealt[1 - s] <= x.dealt[0] + x.dealt[1]
      BY <2>1, <3>1 DEF Seats
    <3>3. QED
      BY <2>4, <3>1, <3>2
  <2>5. QED
    BY <2>3, <2>4
<1>7. Metered(hit) /\ \A s \in Seats : Follows(m[s], hit[s], 1 - most)
  <2>1. most \in Int
    BY <1>6
  <2>2. QED
    BY <1>1, <1>4, <1>6, <2>1, AttackedIn, AttackTraced DEF Follows
<1> HIDE DEF hit
<1>8. Riding(a) /\ Bounded(a)
  <2>1. round \in Int
    OBVIOUS
  <2>2. QED
    BY <1>2, <1>4, <1>7, <2>1, RidersIn, RidersBounded DEF Riding
<1> HIDE DEF a
<1> DEFINE m1 == Hurt(hit, a)
           m2 == Settle(m1, a, 0)
           m3 == Settle(m2, a, 1)
           m4 == Equalize(m3, a)
           m5 == Rewind(m4, a)
           m6 == Rescue(m5, x)
           m7 == Tick(m6)
           m8 == Rescue(m7, x)
           m9 == Afflict(m8, a)
           low == (1 - most) - 23
           least == low - 3
<1>9. Ended(hit, eff, x, a) = [meters |-> m9, riders |-> a, eff |-> eff]
  BY DEF Ended
<1>10. 0 \in Seats /\ 1 \in Seats /\ 1 - most \in Int /\ low \in Int /\ least \in Int /\ low <= 1 /\ least <= 1
  BY <1>6 DEF Seats
<1>11. round <= 100 => least >= -94
  BY <1>6
<1>12. Metered(m1) /\ \A s \in Seats : Follows(m[s], m1[s], low)
  BY <1>7, <1>8, <1>10, HurtIn, HurtTraced DEF Follows
<1> HIDE DEF m1, least
<1>13. least = low - 3
  BY DEF least
<1> HIDE DEF low
<1>14. Metered(m2) /\ \A s \in Seats : Follows(m[s], m2[s], low)
  BY <1>8, <1>10, <1>12, SettleIn, SettleTraced DEF Follows
<1> HIDE DEF m2
<1>15. Metered(m3) /\ \A s \in Seats : Follows(m[s], m3[s], low)
  BY <1>8, <1>10, <1>14, SettleIn, SettleTraced DEF Follows
<1> HIDE DEF m3
<1>16. Metered(m4) /\ \A s \in Seats : Follows(m[s], m4[s], low)
  BY <1>10, <1>15, EqualizeIn, EqualizeTraced DEF Follows
<1> HIDE DEF m4
<1>17. Metered(m5) /\ \A s \in Seats : Follows(m[s], m5[s], low)
  BY <1>10, <1>16, RewindIn, RewindTraced DEF Follows
<1> HIDE DEF m5
<1>18. Metered(m6) /\ \A s \in Seats : Follows(m[s], m6[s], low)
  BY <1>10, <1>17, RescueIn, RescueTraced DEF Follows
<1> HIDE DEF m6
<1>19. Metered(m7) /\ \A s \in Seats : Follows(m[s], m7[s], low - 3)
  BY <1>10, <1>18, TickIn, TickTraced DEF Follows
<1> HIDE DEF m7
<1>20. Metered(m8) /\ \A s \in Seats : Follows(m[s], m8[s], least)
  BY <1>10, <1>13, <1>19, RescueIn, RescueTraced DEF Follows
<1> HIDE DEF m8
<1>21. \A s \in Seats : Follows(m[s], m9[s], least)
  BY <1>8, <1>10, <1>20, AfflictTraced DEF Follows
<1> HIDE DEF m9
<1>22. Resolution(m, decl).meters = m9
  BY <1>3, <1>9
<1>23. QED
  BY <1>10, <1>11, <1>21, <1>22

-----------------------------------------------------------------------------
(***************************************************************************)
(* The outcome of a round explains the hulls.                              *)
(***************************************************************************)

\* While cards are locked the outcome is empty; a burn takes at most 3 a round; a round
\* that has been resolved leaves its trace, exact up to round 100.
AccountInv ==
    /\ phase = "play" => \A s \in Seats : Fresh(meters[s])
    /\ \A s \in Seats : meters[s].burn_amt \in 0 .. 3
    /\ phase # "play" /\ reason # "forfeit" =>
           \/ \A s \in Seats : lock_slot[s] = Open
           \/ \E least \in Int : /\ round <= 100 => least >= -94
                                 /\ \A s \in Seats : Traced(meters[s], least)
LEMMA AccountStarts == Init => AccountInv
<1> SUFFICES ASSUME Init
             PROVE  AccountInv
  OBVIOUS
<1>1. \A s \in Seats : meters[s].burn_amt = 0
  BY DEF Init, NewMeters
<1>2. phase = "idle" /\ \A s \in Seats : lock_slot[s] = Open
  BY DEF Init
<1>3. QED
  BY <1>1, <1>2 DEF AccountInv

LEMMA BeginFresh ==
    ASSUME MatchInv, MatchInv', AccountInv, BeginRound, NEW s \in Seats
    PROVE  Fresh(meters[s])'
<1>1. PICK rolls \in [Seats -> Rolls] :
           meters' = [t \in Seats |->
               [meters[t] EXCEPT
                   !.hull_prev = meters[t].hull_start, !.hull_start = meters[t].hull,
                   !.energy = clampi(round_start_energy(@) + meters[t].next_e, 0, EnergyCap),
                   !.next_e = 0,
                   !.vault = clampi(round_start_vault(@), -100, 99),
                   !.roll = rolls[t], !.dmg_to = 0, !.heal = 0, !.saved = FALSE]]
  BY DEF BeginRound
<1> DEFINE energy == clampi(round_start_energy(meters[s].energy) + meters[s].next_e, 0, EnergyCap)
           vault == clampi(round_start_vault(meters[s].vault), -100, 99)
<1>2. meters'[s] = [meters[s] EXCEPT
                       !.hull_prev = meters[s].hull_start, !.hull_start = meters[s].hull,
                       !.energy = energy, !.next_e = 0, !.vault = vault,
                       !.roll = rolls[s], !.dmg_to = 0, !.heal = 0, !.saved = FALSE]
  BY <1>1
<1> HIDE DEF energy, vault
<1>3. /\ meters[s] \in MeterType /\ meters[s].hull \in -100 .. 20 /\ meters[s].hull > 0
      /\ meters[s].burn_amt \in 0 .. 3
  <2>1. Metered(meters) /\ phase # "over"
    BY DEF MatchInv, TypeOK, Metered, BeginRound
  <2>2. QED
    BY <2>1, MeterFields DEF MatchInv, OutcomeFits, AccountInv
<1>4. meters'[s] \in MeterType
  BY DEF MatchInv, TypeOK
<1>5. /\ meters'[s].hull = meters[s].hull /\ meters'[s].hull_start = meters[s].hull
      /\ meters'[s].burn_amt = meters[s].burn_amt
      /\ meters'[s].dmg_to = 0 /\ meters'[s].heal = 0 /\ meters'[s].saved = FALSE
  BY <1>2, <1>3 DEF MeterType
<1>6. meters[s].hull \in 1 .. 20
  BY <1>3
<1>7. QED
  BY <1>3, <1>4, <1>5, <1>6 DEF Fresh

LEMMA AccountStep == MatchInv /\ MatchInv' /\ AccountInv /\ [Next]_vars => AccountInv'
<1> SUFFICES ASSUME MatchInv, MatchInv', AccountInv, [Next]_vars
             PROVE  AccountInv'
  OBVIOUS
<1>1. CASE BeginRound
  <2>1. \A s \in Seats : Fresh(meters[s])'
    BY <1>1, BeginFresh
  <2>2. phase' = "play"
    BY <1>1 DEF BeginRound
  <2>3. QED
    BY <2>1, <2>2 DEF AccountInv, Fresh
<1>2. ASSUME NEW s \in Seats, NEW slot \in Slots \cup {Pass}, Lock(s, slot)
      PROVE  AccountInv'
  BY <1>2 DEF Lock, AccountInv
<1>3. CASE Resolve
  <2> DEFINE r == Resolution(meters, LastCards)
  <2>1. phase = "play" /\ meters' = r.meters /\ round' = round /\ lock_slot' = lock_slot /\ Decide(r.meters)
    BY <1>3 DEF Resolve
  <2>2. Metered(meters) /\ round \in Nat
    BY DEF MatchInv, TypeOK, Metered
  <2>3. Played(LastCards) /\ Affordable(meters, LastCards)
    BY <2>1, DeclaredPlays
  <2>4. PICK least \in Int : /\ round <= 100 => least >= -94
                             /\ \A s \in Seats : Traced(r.meters[s], least)
    BY <2>1, <2>2, <2>3, ResolutionTraced DEF AccountInv, Follows
  <2>5. phase' \in {"idle", "over"}
    BY <2>1 DEF Decide
  <2> HIDE DEF r
  <2>6. /\ round' <= 100 => least >= -94
        /\ \A s \in Seats : Traced(meters'[s], least)
    BY <2>1, <2>4
  <2>7. \A s \in Seats : meters'[s].burn_amt \in 0 .. 3
    BY <2>6 DEF Traced, Noted
  <2>8. QED
    BY <2>5, <2>6, <2>7 DEF AccountInv
<1>4. ASSUME NEW s \in Seats, Forfeit(s)
      PROVE  AccountInv'
  BY <1>4 DEF Forfeit, table, AccountInv
<1>5. CASE UNCHANGED vars
  BY <1>5 DEF vars, table, AccountInv
<1>6. QED
  BY <1>1, <1>2, <1>3, <1>4, <1>5 DEF Next

\* What a round did to the hulls is never lost, in any match.
LEMMA MatchTraced == Spec => [](MatchInv /\ AccountInv)
<1>1. Init => MatchInv /\ AccountInv
  BY Started, AccountStarts
<1>2. MatchInv /\ AccountInv /\ [Next]_vars => (MatchInv /\ AccountInv)'
  BY MatchStep, AccountStep
<1>3. QED
  BY <1>1, <1>2, PTL DEF Spec

\* In matches of up to 100 rounds, the limit of max_rounds() in card_rules.c, dmg_to and heal
\* of the outcome explain the new hull of a seat exactly, whatever the decks and the rolls,
\* unless lifeline set it: no damage of the catalog reaches the clamp of the hull at -100.
THEOREM DamageAccounted ==
    ASSUME MaxRounds <= 100
    PROVE  Spec => []Accounted
<1>1. MatchInv /\ AccountInv => Accounted
  <2> SUFFICES ASSUME MatchInv, AccountInv, NEW s \in Seats,
                      ~meters[s].saved, lock_slot[s] # Open, phase # "play", reason # "forfeit"
               PROVE  meters[s].hull = meters[s].hull_start - meters[s].dmg_to + meters[s].heal
    BY DEF Accounted
  <2>1. PICK least \in Int : /\ round <= 100 => least >= -94
                             /\ \A t \in Seats : Traced(meters[t], least)
    BY DEF AccountInv
  <2>2. round <= 100
    BY RoundsOK DEF MatchInv, TypeOK
  <2>3. QED
    BY <2>1, <2>2 DEF Traced, Exact
<1>2. QED
  BY <1>1, MatchTraced, PTL

-----------------------------------------------------------------------------
(***************************************************************************)
(* The match implements Duel.                                              *)
(***************************************************************************)
Shown == [s \in Seats |-> IF phase = "play" THEN Legal(s) ELSE {}]
Locks == [s \in Seats |-> IF phase = "play" THEN lock_slot[s] ELSE Open]

\* What a round that is not under way shows: nothing to play and no locks.
LEMMA NothingShown ==
    /\ phase # "play" => Shown = AsDuel!Closed /\ Locks = AsDuel!Unlocked
    /\ phase' # "play" => Shown' = AsDuel!Closed /\ Locks' = AsDuel!Unlocked
  BY DEF Shown, Locks, AsDuel!Closed, AsDuel!Unlocked, Seats, AsDuel!Seats

LEMMA BeginsDuel ==
    ASSUME MatchInv, BeginRound
    PROVE  AsDuel!BeginRound
<1>1. /\ phase = "idle" /\ phase' = "play" /\ round' = round + 1
      /\ lock_slot' = [s \in Seats |-> Open] /\ result' = result
  BY DEF BeginRound
<1>2. round < MaxRounds
  BY <1>1 DEF MatchInv, OutcomeFits
<1>3. Shown' \in [Seats -> SUBSET Slots]
  BY DEF Shown, Legal, Slots
<1>4. Locks' = AsDuel!Unlocked
  BY <1>1 DEF Locks, AsDuel!Unlocked, Seats, AsDuel!Seats
<1>5. QED
  BY <1>1, <1>2, <1>3, <1>4 DEF AsDuel!BeginRound, Shown, Locks, Seats, AsDuel!Seats

\* What was shown as legal when the round began is what can be locked.
LEMMA LocksInDuel ==
    ASSUME MatchInv, NEW s \in Seats, NEW slot \in Slots \cup {Pass}, Lock(s, slot)
    PROVE  AsDuel!Lock(s, slot)
<1>1. /\ phase = "play" /\ phase' = "play" /\ lock_slot[s] = Open
      /\ lock_slot' = [lock_slot EXCEPT ![s] = slot]
      /\ UNCHANGED <<deck, piles, meters, round, lock_mask, result>>
  BY DEF Lock
<1>2. slot \in Legal(s) \cup {Pass}
  BY DEF Lock, Legal
<1>3. Shown' = Shown /\ Shown[s] = Legal(s)
  <2>1. \A t \in Seats : Legal(t)' = Legal(t)
    BY <1>1 DEF Legal, Card
  <2>2. QED
    BY <1>1, <2>1 DEF Shown
<1>4. Locks[s] = Open /\ Locks' = [Locks EXCEPT ![s] = slot]
  BY <1>1 DEF Locks, MatchInv, TypeOK
<1>5. QED
  BY <1>1, <1>2, <1>3, <1>4 DEF AsDuel!Lock, Shown, Locks

LEMMA ResolvesDuel ==
    ASSUME MatchInv, MatchInv', Resolve
    PROVE  AsDuel!Resolve
<1>1. phase = "play" /\ (\A s \in Seats : lock_slot[s] # Open) /\ round' = round
  BY DEF Resolve
<1>2. \A s \in Seats : Locks[s] # Open
  BY <1>1 DEF Locks
<1>3. phase' \in {"idle", "over"} /\ (phase' = "idle" => result' = result)
  <2>1. PICK m : Decide(m)
    BY DEF Resolve
  <2>2. QED
    BY <2>1 DEF Decide
<1>4. CASE phase' = "idle"
  <2>1. round < MaxRounds
    BY <1>1, <1>4 DEF MatchInv, OutcomeFits
  <2>2. QED
    BY <1>1, <1>2, <1>3, <1>4, <2>1, NothingShown
       DEF AsDuel!Resolve, AsDuel!GoesOn, Shown, Locks, Seats, AsDuel!Seats
<1>5. CASE phase' = "over"
  <2>1. /\ result' \in [Seats -> {"none", "win", "loss", "draw"}]
        /\ \A s \in Seats : result'[s] = CASE result'[1 - s] = "win" -> "loss"
                                           [] result'[1 - s] = "loss" -> "win"
                                           [] OTHER -> "draw"
    BY <1>5 DEF MatchInv, TypeOK, OutcomeFits
  <2>2. \E r \in AsDuel!Results : result'[0] = r[1] /\ result'[1] = r[2]
    <3>1. 0 \in Seats /\ 1 \in Seats /\ 1 - 0 = 1 /\ 1 - 1 = 0
      BY DEF Seats
    <3>2. /\ result'[0] = CASE result'[1] = "win" -> "loss" [] result'[1] = "loss" -> "win" [] OTHER -> "draw"
          /\ result'[1] = CASE result'[0] = "win" -> "loss" [] result'[0] = "loss" -> "win" [] OTHER -> "draw"
      BY <2>1, <3>1
    <3>3. \/ result'[0] = "win" /\ result'[1] = "loss"
          \/ result'[0] = "loss" /\ result'[1] = "win"
          \/ result'[0] = "draw" /\ result'[1] = "draw"
      BY <3>2
    <3>4. QED
      BY <3>3 DEF AsDuel!Results
  <2>3. PICK r \in AsDuel!Results : result'[0] = r[1] /\ result'[1] = r[2]
    BY <2>2
  <2>4. result' = [s \in AsDuel!Seats |-> r[s + 1]]
    BY <2>1, <2>3 DEF Seats, AsDuel!Seats
  <2>5. AsDuel!EndsWith(r)
    BY <1>5, <2>4 DEF AsDuel!EndsWith
  <2>6. QED
    BY <1>1, <1>2, <1>5, <2>3, <2>5, NothingShown
       DEF AsDuel!Resolve, Shown, Locks, Seats, AsDuel!Seats
<1>6. QED
  BY <1>3, <1>4, <1>5

LEMMA ForfeitsDuel ==
    ASSUME NEW s \in Seats, Forfeit(s)
    PROVE  AsDuel!Forfeit(s)
<1>1. /\ phase = "play" /\ phase' = "over" /\ round' = round
      /\ result' = [t \in Seats |-> IF t = s THEN "loss" ELSE "win"]
  BY DEF Forfeit, table
<1> DEFINE r == IF s = 0 THEN <<"loss", "win">> ELSE <<"win", "loss">>
<1>2. result' = [t \in AsDuel!Seats |-> r[t + 1]]
  <2>1. s = 0 \/ s = 1
    BY DEF Seats
  <2>2. QED
    BY <1>1, <2>1 DEF Seats, AsDuel!Seats
<1>3. AsDuel!EndsWith(r)
  BY <1>1, <1>2 DEF AsDuel!EndsWith
<1>4. QED
  BY <1>1, <1>3, NothingShown DEF AsDuel!Forfeit, Shown, Locks

\* Whatever cards are in the decks, whoever plays a match through ROUND_START, PLAY and the
\* result may take it for a Duel: what dw_match_view shows a client is enough to know
\* which locks are accepted for the whole round, and nobody's lock or result changes.
THEOREM DuelImplemented == Spec => KeepsDuel
<1>1. Init => AsDuel!Init
  <2> SUFFICES ASSUME Init
               PROVE  AsDuel!Init
    OBVIOUS
  <2>1. round = 0 /\ phase = "idle" /\ result = [s \in AsDuel!Seats |-> "none"]
    BY DEF Init, Seats, AsDuel!Seats
  <2>2. QED
    BY <2>1, NothingShown DEF AsDuel!Init, Shown, Locks
<1>2. MatchInv /\ MatchInv' /\ [Next]_vars => [AsDuel!Next]_(AsDuel!vars)
  <2> SUFFICES ASSUME MatchInv, MatchInv', [Next]_vars
               PROVE  [AsDuel!Next]_(AsDuel!vars)
    OBVIOUS
  <2>1. CASE BeginRound
    BY <2>1, BeginsDuel DEF AsDuel!Next
  <2>2. ASSUME NEW s \in Seats, NEW slot \in Slots \cup {Pass}, Lock(s, slot)
        PROVE  AsDuel!Next
    BY <2>2, LocksInDuel DEF AsDuel!Next, Seats, AsDuel!Seats
  <2>3. CASE Resolve
    BY <2>3, ResolvesDuel DEF AsDuel!Next
  <2>4. ASSUME NEW s \in Seats, Forfeit(s)
        PROVE  AsDuel!Next
    BY <2>4, ForfeitsDuel DEF AsDuel!Next, Seats, AsDuel!Seats
  <2>5. CASE UNCHANGED vars
    <3>1. UNCHANGED <<deck, piles, meters, round, lock_mask, lock_slot, phase, result>>
      BY <2>5 DEF vars, table
    <3>2. Shown' = Shown /\ Locks' = Locks
      BY <3>1 DEF Shown, Locks, Legal, Card
    <3>3. QED
      BY <3>1, <3>2 DEF AsDuel!vars, Shown, Locks
  <2>6. QED
    BY <2>1, <2>2, <2>3, <2>4, <2>5 DEF Next
<1>3. QED
  BY <1>1, <1>2, MatchSound, PTL DEF Spec, KeepsDuel, AsDuel!Spec

===============================================================================
