------------------------------ MODULE MatchRules ------------------------------
(***************************************************************************)
(* A match (core/match.c): two seats with hands, piles and meters, rounds  *)
(* in which both lock a card or a pass, and the resolution of a round in   *)
(* its fixed order.  The numbers come from CardRules.  apps/server/main.c  *)
(* calls begin_round, lock, resolve and forfeit; phase says where it is.   *)
(*                                                                         *)
(* A pile is a set of card copies <<s, i>>, the i-th card of the deck of   *)
(* seat s: nobody sees the order of a shuffled pile, so the card is chosen *)
(* when it is drawn.  The rolls and the random targets are choices too.    *)
(***************************************************************************)
EXTENDS CardRules, FiniteSets

CONSTANTS
    DW_HAND,       \* cards in a hand (4)
    DW_DECK,       \* capacity of a pile (128)
    MaxRounds,     \* max_rounds() (100)
    Rolls,         \* the rolls considered, of 0 .. 99
    Decks          \* the pairs of decks with which a match may start

ASSUME HandOK == DW_HAND \in Nat \ {0} /\ DW_DECK \in Nat
ASSUME RoundsOK == MaxRounds \in Nat \ {0}
ASSUME RollsOK == Rolls \subseteq 0 .. 99
ASSUME DecksOK == \A d \in Decks : \A s \in {0, 1} :
                      d[s] \in Seq(CardIds) /\ Len(d[s]) \in DW_HAND .. DW_DECK

\* What the resolution relies on in the catalog, checked card by card when TLC starts: as
\* docs/CARD_MODE_RULES.md has it, 35 cards of each kind, a keyword on the Operations cards
\* only and 7 cards of each; the channels are known ones, and no card has two words of a
\* channel that keeps one value.
ASSUME CatalogShape ==
    /\ \A k \in 0 .. 2 : Cardinality({id \in CardIds : card_kind(id) = k}) = 35
    /\ \A k \in 1 .. 5 : Cardinality({id \in CardIds : card_keyword(id) = k}) = 7
    /\ \A id \in CardIds :
           /\ (card_keyword(id) > 0) <=> (card_kind(id) = Operations)
           /\ \A w \in {card_fx_a(id), card_fx_b(id)} :
                  w # 0 => fx_ch(w) \in (1 .. 9) \cup (20 .. 43)
           /\ fx_ch(card_fx_a(id)) \in {3, 32, 33, 35} => fx_ch(card_fx_a(id)) # fx_ch(card_fx_b(id))

Seats == {0, 1}
Slots == 0 .. DW_HAND - 1
DW_ARMOR_MAX == 12

Open == -2     \* nothing locked yet
Pass == -1

VARIABLES
    deck,        \* the card ids each seat brought
    piles,       \* per seat: hand, draw pile, discard pile
    meters,      \* per seat: hull, energy, armor, vault (credits), statuses, pending energy,
                 \* the roll, and what the last round did to the hull (DwOutcome)
    round,
    lock_mask,   \* hand slots that may not be played this round
    next_lock,   \* and next round
    lock_slot,   \* what each seat locked: Open, Pass or a slot
    phase,       \* "idle": begin_round is next; "play"; "over": the match is done
    result, reason

table == <<deck, piles, meters, round, lock_mask, next_lock, lock_slot>>
vars  == <<table, phase, result, reason>>

clampi(v, lo, hi) == CASE v < lo -> lo [] v > hi -> hi [] OTHER -> v
Half(n) == IF n >= 0 THEN n \div 2 ELSE -((-n) \div 2)     \* C's division

Both(x, y) == [s \in Seats |-> IF s = 0 THEN x ELSE y]     \* one value for each seat

Copies == UNION {{s} \X (1 .. Len(deck[s])) : s \in Seats}
Card(c) == deck[c[1]][c[2]]

-----------------------------------------------------------------------------
(***************************************************************************)
(* Piles.                                                                  *)
(***************************************************************************)

\* Ways to fill the slots of a hand, lowest first, from the draw pile and then from the
\* reshuffled discard pile.  A deck has at least a hand of cards: there is one to draw.
Draws(p, slots) ==
    {f \in [slots -> p.draw \cup p.discard] :
        /\ \A i, j \in slots : i # j => f[i] # f[j]
        /\ \A i, j \in slots : i < j /\ f[i] \in p.discard => f[j] \in p.discard
        /\ (\E i \in slots : f[i] \in p.discard) => p.draw \subseteq {f[i] : i \in slots}}

\* A mutant: the reshuffled cards stay in the discard pile too.
DrawnTwice(p, f) ==
    LET taken == {f[i] : i \in DOMAIN f}
    IN  [hand |-> [i \in Slots |-> IF i \in DOMAIN f THEN f[i] ELSE p.hand[i]],
         draw |-> (IF taken \cap p.discard # {} THEN p.draw \cup p.discard ELSE p.draw) \ taken,
         discard |-> p.discard]

Drawn(p, f) ==
    LET taken == {f[i] : i \in DOMAIN f}
        reshuffled == p.draw = {} \/ taken \cap p.discard # {}
    IN  [hand |-> [i \in Slots |-> IF i \in DOMAIN f THEN f[i] ELSE p.hand[i]],
         draw |-> (IF reshuffled /\ taken # {} THEN p.draw \cup p.discard ELSE p.draw) \ taken,
         discard |-> IF reshuffled /\ taken # {} THEN {} ELSE p.discard]

Refill(p, slots) == {Drawn(p, f) : f \in Draws(p, slots)}

\* to_discard for the cards in the slots of a hand
Discarded(p, slots) ==
    [p EXCEPT !.discard = IF Cardinality(@) + Cardinality(slots) <= DW_DECK
                          THEN @ \cup {p.hand[i] : i \in slots} ELSE @]

\* The cards in the slots go to the discard pile and the slots are filled again.
Replace(p, slots) == Refill(Discarded(p, slots), slots)

-----------------------------------------------------------------------------
(***************************************************************************)
(* Effects.  m: the meters, e: the card each seat resolves, -1 for none.   *)
(***************************************************************************)

Context(m, e, s, dealt, taken) ==
    LET o == 1 - s
    IN  [dealt |-> dealt, taken |-> taken,
         mk |-> card_kind(e[s]),
         ok |-> IF e[o] >= 0 THEN card_kind(e[o]) ELSE -1,
         oc |-> IF e[o] >= 0 THEN card_cost(e[o]) ELSE 0,
         mh |-> m[s].hull, oh |-> m[o].hull, el |-> m[s].energy, oe |-> m[o].energy,
         mv |-> m[s].vault, ov |-> m[o].vault, rnd |-> round, roll |-> m[s].roll]

\* What a word adds to channel ch, and what the two words of the card of seat s add.
Adds(w, ch, c) == IF fx_ch(w) = ch /\ fx_amount(w, c) > 0 THEN fx_amount(w, c) ELSE 0
Rider(ch, m, e, s, dealt, taken) ==
    IF e[s] < 0 THEN 0
    ELSE LET c == Context(m, e, s, dealt, taken)
         IN  Adds(card_fx_a(e[s]), ch, c) + Adds(card_fx_b(e[s]), ch, c)

\* Costs are paid for the card declared, even if it is cancelled.
Paid(m, decl) ==
    LET After(s) == [m[s] EXCEPT
            !.energy = energy_after_play(@, decl[s]) % 256,
            !.vault = IF decl[s] >= 0 THEN clampi(@ - card_credit(decl[s]), -100, 99) ELSE @]
    IN  Both(After(0), After(1))

\* Both read the cards as declared: mutual cancels cancel each other.
Cancelled(m, orig, s) == Rider(7, m, orig, 1 - s, 0, 0) > 0
Copied(m, orig, s)    == ~Cancelled(m, orig, s) /\ Rider(8, m, orig, s, 0, 0) > 0
\* A mutant: seat 1 copies what seat 0 resolves, not what it declared.
EffectiveInTurn(m, orig) ==
    LET CardOf(s, other) == CASE Cancelled(m, orig, s) -> -1
                              [] Copied(m, orig, s) -> other
                              [] OTHER -> orig[s]
    IN  Both(CardOf(0, orig[1]), CardOf(1, CardOf(0, orig[1])))

Effective(m, orig) ==
    LET CardOf(s) == CASE Cancelled(m, orig, s) -> -1
                        [] Copied(m, orig, s) -> orig[1 - s]
                        [] OTHER -> orig[s]
    IN  Both(CardOf(0), CardOf(1))

\* A card that always lands also stops the counter damage of a Defense card: seat 0
\* first, so the bypass of seat 1 sees what that of seat 0 left.
Bypass(m, e, d, s) == Rider(3, m, e, s, d[s], d[1 - s])
Unreflected(m, e, d, s) ==
    IF Bypass(m, e, d, s) > 0 /\ e[1 - s] >= 0 /\ card_kind(e[1 - s]) = Defense
    THEN [d EXCEPT ![1 - s] = 0] ELSE d

\* The rider sums of a seat, by what they change
RidersOf(channels, m, e, dealt, s) == [n \in DOMAIN channels |-> Rider(channels[n], m, e, s, dealt[s], dealt[1 - s])]
Riders(channels, m, e, dealt) == Both(RidersOf(channels, m, e, dealt, 0), RidersOf(channels, m, e, dealt, 1))

\* What each seat's card deals, d, with the riders h that change the exchange and the
\* bypasses b.
Dealt(e, d, b, h) ==
    LET Countered(s) == e[1 - s] >= 0 /\ kind_beats(card_kind(e[1 - s]), card_kind(e[s]))
        Hit(s) == IF Countered(s) THEN d[s] ELSE d[s] + h[s].damage
        Larger(hit, s) == IF b[s] > hit THEN b[s] ELSE hit
        Landed(s) == IF e[s] < 0 THEN 0 ELSE Larger(Hit(s), s) + h[s].extra
        After(s) == CASE h[1 - s].absorb > 0 -> 0
                      [] h[1 - s].absorb = 0 /\ h[0].halve + h[1].halve > 0 -> Landed(s) \div 2
                      [] OTHER -> Landed(s)
    IN  Both(After(0), After(1))

Attack == [damage |-> 1, pierce |-> 2, absorb |-> 4, life |-> 5, extra |-> 6, halve |-> 9]
Ridden(e, d, b, h) ==
    [dealt |-> Dealt(e, d, b, h),
     pierce |-> Both(h[0].pierce > 0, h[1].pierce > 0),
     life   |-> Both(h[0].life > 0, h[1].life > 0)]
\* d0, d1: what the cards deal before and after the bypass of seat 0
Bypassed(m, e, d0, d1, d2) ==
    Ridden(e, d2, Both(Bypass(m, e, d0, 0), Bypass(m, e, d1, 1)), Riders(Attack, m, e, d2))
Unanswered(m, e, d0, d1) == Bypassed(m, e, d0, d1, Unreflected(m, e, d1, 1))
Answered(m, e, d0) == Unanswered(m, e, d0, Unreflected(m, e, d0, 0))
Exchange(m, e) == Answered(m, e, Both(damage_dealt(e[0], e[1]), damage_dealt(e[1], e[0])))

\* Armor soaks the attack first, unless the attacker pierces.
Soak(m, x, s) ==
    LET in == x.dealt[1 - s]
    IN  CASE x.pierce[1 - s] -> 0
          [] ~x.pierce[1 - s] /\ m[s].armor < in -> m[s].armor
          [] OTHER -> in

Attacked(m, x) ==
    LET After(s) ==
            LET lost == x.dealt[1 - s] - Soak(m, x, s)
            IN  [m[s] EXCEPT !.armor = @ - Soak(m, x, s), !.hull = clampi(@ - lost, -100, start_hull),
                             !.dmg_to = lost, !.heal = 0, !.saved = FALSE]
    IN  Both(After(0), After(1))

\* The riders of phase 2, all read from the state after the attack
Aftermath ==
    [heal |-> 20, selfdmg |-> 21, truedmg |-> 22, energy |-> 23, oenergy |-> 24, nexte |-> 25,
     nextl |-> 26, onextl |-> 27, armor |-> 28, vault |-> 29, spend |-> 30, ospend |-> 31,
     burn |-> 32, regen |-> 33, lock |-> 34, blind |-> 35, swap |-> 36, redraw |-> 37,
     equalize |-> 39, chrono |-> 40, convert |-> 41, cleanse |-> 42, debtfree |-> 43]

\* Self damage and true damage
Hurt(m, a) ==
    LET After(s) ==
            LET lost == a[s].selfdmg + a[1 - s].truedmg
            IN  [m[s] EXCEPT !.hull = clampi(@ - lost, -100, start_hull), !.dmg_to = @ + lost]
    IN  Both(After(0), After(1))

\* Healing, armor, energy, credits, cleanse and debt-free of seat s, and its drains of the other
Settle(m, a, s) ==
    LET healed == IF m[s].hull < start_hull THEN clampi(a[s].heal, 0, start_hull - m[s].hull) ELSE 0
        moved == clampi(a[s].convert, 0, m[s].energy)
        vault == clampi(m[s].vault + a[s].vault - a[s].spend, -100, 99)
        self == [m[s] EXCEPT
            !.hull = @ + healed,
            !.heal = @ + healed,
            !.armor = clampi(clampi(@ + a[s].armor, 0, DW_ARMOR_MAX) + moved, 0, DW_ARMOR_MAX),
            !.energy = clampi(@ - moved + a[s].energy, 0, EnergyCap),
            !.next_e = clampi(@ + a[s].nexte - a[s].nextl, -20, 20),
            !.vault = IF a[s].debtfree > 0 /\ vault < 0 THEN 0 ELSE vault,
            !.burn_left = IF a[s].cleanse > 0 THEN 0 ELSE @]
        other == [m[1 - s] EXCEPT
            !.energy = clampi(@ - a[s].oenergy, 0, EnergyCap),
            !.next_e = clampi(@ - a[s].onextl, -20, 20),
            !.vault = clampi(@ - a[s].ospend, -100, 99)]
    IN  [t \in Seats |-> IF t = s THEN self ELSE other]

Gain(from, to) == IF to > from THEN to - from ELSE 0

\* A mutant: a hull lowered to the average is not counted as damage.
EqualizeUncounted(m, a) ==
    LET avg == Half(m[0].hull + m[1].hull + 1)
        After(s) == [m[s] EXCEPT !.hull = clampi(avg, -100, start_hull),
                                 !.heal = @ + Gain(m[s].hull, avg)]
    IN  IF a[0].equalize + a[1].equalize > 0 THEN Both(After(0), After(1)) ELSE m

\* Both hulls become their average.
Equalize(m, a) ==
    LET avg == Half(m[0].hull + m[1].hull + 1)
        After(s) == [m[s] EXCEPT !.hull = clampi(avg, -100, start_hull),
                                 !.dmg_to = @ + Gain(avg, m[s].hull),
                                 !.heal = @ + Gain(m[s].hull, avg)]
    IN  IF a[0].equalize + a[1].equalize > 0 THEN Both(After(0), After(1)) ELSE m

\* Chronobreak: back to the hull of the start of the previous round.
Rewind(m, a) ==
    LET Back(s) == IF a[s].chrono > 0 THEN Gain(m[s].hull, m[s].hull_prev) ELSE 0
        After(s) == [m[s] EXCEPT !.hull = @ + Back(s), !.heal = @ + Back(s)]
    IN  Both(After(0), After(1))

\* A mutant: a hull of exactly 0 is not rescued.
RescueBelow(m, x) ==
    LET After(s) == IF x.life[s] /\ m[s].hull < 0
                      THEN [m[s] EXCEPT !.hull = 1, !.saved = TRUE] ELSE m[s]
    IN  Both(After(0), After(1))
Rescue(m, x) ==
    LET After(s) == IF x.life[s] /\ m[s].hull <= 0
                      THEN [m[s] EXCEPT !.hull = 1, !.saved = TRUE] ELSE m[s]
    IN  Both(After(0), After(1))

Dec(n) == IF n > 0 THEN n - 1 ELSE 0

\* Regeneration, burn and hiding of earlier rounds
Tick(m) ==
    LET After(s) ==
            LET room == Gain(m[s].hull, start_hull)
                regen == IF m[s].regen_left > 0 THEN clampi(m[s].regen_amt, 0, room) ELSE 0
                burn == IF m[s].burn_left > 0 THEN m[s].burn_amt ELSE 0
            IN  [m[s] EXCEPT !.hull = clampi(@ + regen - burn, -100, start_hull),
                             !.heal = @ + regen, !.dmg_to = @ + burn,
                             !.regen_left = Dec(@), !.burn_left = Dec(@), !.hidden = Dec(@)]
    IN  Both(After(0), After(1))

\* The statuses of this round: amount and rounds are packed in one number.
Afflict(m, a) ==
    LET After(s) ==
            [m[s] EXCEPT !.burn_amt = IF a[1 - s].burn > 0 THEN a[1 - s].burn \div 16 ELSE @,
                         !.burn_left = IF a[1 - s].burn > 0 THEN a[1 - s].burn % 16 ELSE @,
                         !.regen_amt = IF a[s].regen > 0 THEN a[s].regen \div 16 ELSE @,
                         !.regen_left = IF a[s].regen > 0 THEN a[s].regen % 16 ELSE @,
                         !.hidden = IF a[s].blind > 0 THEN a[s].blind ELSE @]
    IN  Both(After(0), After(1))

\* All meters, from those at the lock: decl are the cards declared.
Substituted(m, decl) ==
    LET Of(s) == IF decl[s] >= 0 THEN card_substitute(decl[s], m[s].roll) ELSE -1
    IN  Both(Of(0), Of(1))
Ended(hit, eff, x, a) ==
    [meters |-> Afflict(Rescue(Tick(Rescue(Rewind(Equalize(Settle(Settle(Hurt(hit, a), a, 0), a, 1), a), a), x)), x), a),
     riders |-> a, eff |-> eff]
Followed(hit, eff, x) == Ended(hit, eff, x, Riders(Aftermath, hit, eff, x.dealt))
Fought(paid, eff, x) == Followed(Attacked(paid, x), eff, x)
Joined(paid, eff) == Fought(paid, eff, Exchange(paid, eff))
Opened(paid, subs) == Joined(paid, Effective(paid, subs))
Resolution(m, decl) == Opened(Paid(m, decl), Substituted(m, decl))

-----------------------------------------------------------------------------
(***************************************************************************)
(* The operations.                                                         *)
(***************************************************************************)

NewMeters ==
    [hull |-> start_hull, energy |-> start_energy, armor |-> 0, vault |-> start_vault,
     hull_start |-> start_hull, hull_prev |-> start_hull, burn_amt |-> 0, burn_left |-> 0,
     regen_amt |-> 0, regen_left |-> 0, hidden |-> 0, next_e |-> 0, roll |-> 0,
     dmg_to |-> 0, heal |-> 0, saved |-> FALSE]

Whole(d, s) == [hand |-> [i \in Slots |-> <<s, 0>>], draw |-> {s} \X (1 .. Len(d[s])), discard |-> {}]

Init ==
    /\ deck \in Decks
    /\ \E p \in Refill(Whole(deck, 0), Slots), q \in Refill(Whole(deck, 1), Slots) :
           piles = Both(p, q)
    /\ meters = [s \in Seats |-> NewMeters]
    /\ round = 0
    /\ lock_mask = [s \in Seats |-> {}] /\ next_lock = [s \in Seats |-> {}]
    /\ lock_slot = [s \in Seats |-> Open]
    /\ phase = "idle"
    /\ result = [s \in Seats |-> "none"] /\ reason = "none"

\* dw_match_begin_round
BeginRound ==
    /\ phase = "idle"
    /\ phase' = "play"
    /\ round' = round + 1
    /\ \E rolls \in [Seats -> Rolls] :
           meters' = [s \in Seats |->
               [meters[s] EXCEPT
                   !.hull_prev = meters[s].hull_start, !.hull_start = meters[s].hull,
                   !.energy = clampi(round_start_energy(@) + meters[s].next_e, 0, EnergyCap),
                   !.next_e = 0,
                   !.vault = clampi(round_start_vault(@), -100, 99),
                   !.roll = rolls[s], !.dmg_to = 0, !.heal = 0, !.saved = FALSE]]
    /\ lock_mask' = next_lock /\ next_lock' = [s \in Seats |-> {}]
    /\ lock_slot' = [s \in Seats |-> Open]
    /\ UNCHANGED <<deck, piles, result, reason>>

Declared(s) == IF lock_slot[s] \in Slots THEN Card(piles[s].hand[lock_slot[s]]) ELSE -1
LastCards == Both(Declared(0), Declared(1))

\* A mutant: the card need not be affordable.
LockUnpaid(s, slot) ==
    /\ phase = "play"
    /\ lock_slot[s] = Open
    /\ slot \in Slots => slot \notin lock_mask[s]
    /\ lock_slot' = [lock_slot EXCEPT ![s] = slot]
    /\ UNCHANGED <<deck, piles, meters, round, lock_mask, next_lock, phase, result, reason>>

\* A mutant: a slot that the opponent closed may be played.
LockClosed(s, slot) ==
    /\ phase = "play"
    /\ lock_slot[s] = Open
    /\ slot \in Slots => is_legal_play(Card(piles[s].hand[slot]), meters[s].energy, meters[s].vault)
    /\ lock_slot' = [lock_slot EXCEPT ![s] = slot]
    /\ UNCHANGED <<deck, piles, meters, round, lock_mask, next_lock, phase, result, reason>>

\* dw_match_lock, when it returns 0; every rejection leaves the match as it was
Lock(s, slot) ==
    /\ phase = "play"
    /\ lock_slot[s] = Open
    /\ slot \in Slots =>
           /\ slot \notin lock_mask[s]
           /\ is_legal_play(Card(piles[s].hand[slot]), meters[s].energy, meters[s].vault)
    /\ lock_slot' = [lock_slot EXCEPT ![s] = slot]
    /\ UNCHANGED <<deck, piles, meters, round, lock_mask, next_lock, phase, result, reason>>

Bust(m, s) == m[s].hull <= 0 \/ bankrupt(m[s].vault)

\* End conditions
Decide(m) ==
    IF match_decided(m[0].hull, m[1].hull) \/ (\E s \in Seats : bankrupt(m[s].vault))
      THEN /\ phase' = "over"
           /\ reason' = IF \E s \in Seats : m[s].hull <= 0 THEN "hull" ELSE "bankrupt"
           /\ result' = [s \in Seats |-> CASE Bust(m, 0) /\ Bust(m, 1) -> "draw"
                                           [] Bust(m, s) /\ ~Bust(m, 1 - s) -> "loss"
                                           [] OTHER -> "win"]
      ELSE IF round >= MaxRounds
        THEN LET w == round_winner(m[0].hull, m[1].hull, m[0].vault, m[1].vault)
             IN  /\ phase' = "over"
                 /\ reason' = "rounds"
                 /\ result' = [s \in Seats |-> CASE w = Draw -> "draw" [] w = s -> "win" [] OTHER -> "loss"]
        ELSE phase' = "idle" /\ UNCHANGED <<result, reason>>

\* The free slots of an opponent's hand that k disables may close next round
Disabled(locked, k) ==
    LET free == Slots \ locked
    IN  {locked \cup K : K \in {K \in SUBSET free :
                                   Cardinality(K) = clampi(k, 0, Cardinality(free))}}

\* Hands are exchanged when exactly one seat swaps.
Swap(p, a) ==
    IF (a[0].swap > 0) = (a[1].swap > 0) THEN p
    ELSE [s \in Seats |-> [p[s] EXCEPT !.hand = p[1 - s].hand]]

\* dw_match_resolve
Resolve ==
    /\ phase = "play"
    /\ \A s \in Seats : lock_slot[s] # Open
    /\ \E r \in {Resolution(meters, LastCards)} :
       LET a == r.riders
           played(s) == IF lock_slot[s] = Pass THEN {} ELSE {lock_slot[s]}
           redrawn(p, s) == IF a[s].redraw > 0 THEN Replace(p, Slots) ELSE {p}
       IN  /\ meters' = r.meters
           /\ \E p \in Replace(piles[0], played(0)), q \in Replace(piles[1], played(1)) :
                  \E pp \in redrawn(p, 0), qq \in redrawn(q, 1) :
                      piles' = Swap(Both(pp, qq), a)
           /\ \E l0 \in Disabled(next_lock[0], a[1].lock), l1 \in Disabled(next_lock[1], a[0].lock) :
                  next_lock' = Both(l0, l1)
           /\ Decide(r.meters)
    /\ UNCHANGED <<deck, round, lock_mask, lock_slot>>

\* dw_match_forfeit: a seat left, or its connection dropped
Forfeit(s) ==
    /\ phase = "play"
    /\ phase' = "over" /\ reason' = "forfeit"
    /\ result' = [t \in Seats |-> IF t = s THEN "loss" ELSE "win"]
    /\ UNCHANGED table

Next ==
    \/ BeginRound
    \/ \E s \in Seats, slot \in Slots \cup {Pass} : Lock(s, slot)
    \/ Resolve
    \/ \E s \in Seats : Forfeit(s)

Spec == Init /\ [][Next]_vars

-----------------------------------------------------------------------------
(***************************************************************************)
(* Properties.                                                             *)
(***************************************************************************)

MeterType ==
    [hull : -100 .. start_hull, energy : 0 .. EnergyCap, armor : 0 .. DW_ARMOR_MAX,
     vault : -100 .. 99, hull_start : -100 .. start_hull, hull_prev : -100 .. start_hull,
     burn_amt : Int, burn_left : Int, regen_amt : Int, regen_left : Int, hidden : Int,
     next_e : -20 .. 20, roll : 0 .. 99, dmg_to : Int, heal : Int, saved : BOOLEAN]

\* The meters stay in the ranges of their 8-bit fields, and a locked card can be paid for
\* when the round is resolved: energy_after_play subtracts from a uint8_t.
TypeOK ==
    /\ deck \in Decks
    /\ meters \in [Seats -> MeterType]
    /\ round \in 0 .. MaxRounds
    /\ lock_mask \in [Seats -> SUBSET Slots] /\ next_lock \in [Seats -> SUBSET Slots]
    /\ lock_slot \in [Seats -> Slots \cup {Open, Pass}]
    /\ phase \in {"idle", "play", "over"}
    /\ result \in [Seats -> {"none", "win", "loss", "draw"}]
    /\ reason \in {"none", "hull", "bankrupt", "rounds", "forfeit"}
    /\ phase = "play" => \A s \in Seats : lock_slot[s] \in Slots =>
           is_legal_play(Declared(s), meters[s].energy, meters[s].vault)

HandOf(s) == {piles[s].hand[i] : i \in Slots}

CopiesKept ==
    /\ UNION {HandOf(s) \cup piles[s].draw \cup piles[s].discard : s \in Seats} = Copies
    /\ \A s \in Seats :
           Cardinality(HandOf(s)) + Cardinality(piles[s].draw) + Cardinality(piles[s].discard)
               = Len(deck[s])

\* There is a card to draw for any slot that was played and, if the hand is redrawn then,
\* for every slot of it.
DrawsSuffice ==
    \A s \in Seats, played \in {{}} \cup {{i} : i \in Slots} :
        /\ Replace(piles[s], played) # {}
        /\ \A p \in Replace(piles[s], played) : Replace(p, Slots) # {}

\* Through discards, reshuffles, redraws and swapped hands every copy of either deck is
\* in exactly one of the six places and the capacity of a pile is never what stops a
\* discard; no hand has a gap, and draw_card never finds both piles of a seat empty, so that
\* no slot stays empty in a later round either.
CardsKept == CopiesKept /\ DrawsSuffice

\* A match goes on only while both seats can: it ends in the round in which a hull or the
\* credits of a seat fail, never before, never with a winner who also failed, with results
\* that fit each other, and at the latest in the last round.
OutcomeFits ==
    /\ phase # "over" =>
           /\ result = [s \in Seats |-> "none"]
           /\ \A s \in Seats : meters[s].hull > 0 /\ ~bankrupt(meters[s].vault)
           /\ phase = "idle" => round < MaxRounds
    /\ phase = "over" =>
           /\ \A s \in Seats : result[s] = CASE result[1 - s] = "win" -> "loss"
                                             [] result[1 - s] = "loss" -> "win"
                                             [] OTHER -> "draw"
           /\ reason # "forfeit" => \A s \in Seats : result[s] = "win" => ~Bust(meters, s)
           /\ reason = "rounds" => round = MaxRounds /\ \A s \in Seats : ~Bust(meters, s)

\* match.h: dmg_to is all the hull a seat lost in a round and heal all it won back.  They
\* explain the new hull, unless lifeline set it.
Accounted ==
    \A s \in Seats : ~meters[s].saved /\ lock_slot[s] # Open /\ phase # "play" /\ reason # "forfeit" =>
        meters[s].hull = meters[s].hull_start - meters[s].dmg_to + meters[s].heal

Resolved == Resolution(meters, LastCards)
HasChannel(id, ch) == id >= 0 /\ ch \in {fx_ch(card_fx_a(id)), fx_ch(card_fx_b(id))}

\* Lifeline is the last word on the hull: whatever hits the seat in the round its lifeline
\* card resolves, burn included, it is alive afterwards.
LifelineHolds ==
    [][Resolve => \A s \in Seats : HasChannel(Resolved.eff[s], 5) => meters'[s].hull > 0]_vars

Mirror(f) == Both(f[1], f[0])

\* Neither seat is favoured in the fight, although every step runs for seat 0 first: with
\* the seats exchanged, the same cards and meters give the same hulls, losses and armors,
\* exchanged.  Energy and credits are not covered, nor armor converted from energy: a drain of seat 0
\* comes before what seat 1 converts, earns or is bailed out of, a drain of seat 1 after it.
SeatFair ==
    phase = "play" /\ (\A s \in Seats : lock_slot[s] # Open) =>
        LET here == Resolved.meters
            there == Resolution(Mirror(meters), Mirror(LastCards)).meters
        IN  \A s \in Seats :
                /\ here[s].hull = there[1 - s].hull
                /\ Resolved.riders[s].convert = 0 => here[s].armor = there[1 - s].armor
                /\ here[s].dmg_to = there[1 - s].dmg_to /\ here[s].heal = there[1 - s].heal
                /\ here[s].burn_left = there[1 - s].burn_left

-----------------------------------------------------------------------------
(***************************************************************************)
(* What a client makes of a ROUND_START: legal of core/policy.c, from the  *)
(* hand, the closed slots, the energy and the credits that dw_match_view   *)
(* put into it.                                                            *)
(***************************************************************************)
Legal(s) ==
    {i \in Slots : /\ i \notin lock_mask[s]
                   /\ is_legal_play(Card(piles[s].hand[i]), meters[s].energy, meters[s].vault)}

AsDuel == INSTANCE Duel WITH
              legal <- [s \in Seats |-> IF phase = "play" THEN Legal(s) ELSE {}],
              lock <- [s \in Seats |-> IF phase = "play" THEN lock_slot[s] ELSE Open],
              stage <- phase

\* The match of match.c is what its users take it for: what a ROUND_START shows as legal is
\* what dw_match_lock accepts until the round is resolved, though the two sides decide it
\* apart; locks are final, no round follows the last one, and results stay.
KeepsDuel == AsDuel!Spec

=============================================================================
