------------------------------- MODULE Draft -------------------------------
(***************************************************************************)
(* Deck building, src/core/draft.c.  A draft offers two cards at a time;   *)
(* the drafter takes one with one, two or three copies.  Buckets[k] cards  *)
(* of the finished deck have k copies: ten 1-ofs, five 2-ofs and one 3-of  *)
(* in the code, which makes 16 picks of a catalog of 105 cards.  A draft   *)
(* is a record                                                             *)
(*   pick_no  picks made                                                   *)
(*   left     for each number of copies, how many cards may still get it   *)
(*   offer    the two cards on offer, <<>> when the draft is done          *)
(*   deck     copies taken of every card; DwDraft.used[c] is deck[c] > 0,  *)
(*            as both are written by the same pick                         *)
(* Offers are a function of a seed; here any two cards make_offer may pick.*)
(***************************************************************************)
EXTENDS Integers, FiniteSets

CONSTANTS
    Cards,      \* the catalog
    Buckets     \* DwDraft.left at the start, << 10, 5, 1 >>

Copies == 1 .. 3

ASSUME BucketsOK == Buckets \in [Copies -> Nat]

\* DW_DRAFT_PICKS
Picks == Buckets[1] + Buckets[2] + Buckets[3]

\* make_offer draws until it has two cards that were not taken: one more card than
\* picks has to exist (105 and 16 in the code), or the last draw never returns; and
\* a draft that is begun has something to pick.
ASSUME CatalogOK == IsFiniteSet(Cards) /\ Picks > 0 /\ Cardinality(Cards) > Picks

Decks == [Cards -> 0 .. 3]
Taken(deck) == {c \in Cards : deck[c] > 0}
CardsWith(deck, k) == {c \in Cards : deck[c] = k}

\* The offers make_offer can draw after n picks that took the cards in used.
Offers(n, used) ==
    IF n >= Picks THEN {<< >>}
    ELSE {o \in (Cards \ used) \X (Cards \ used) : o[1] # o[2]}

NewDrafts ==
    {[pick_no |-> 0, left |-> Buckets, offer |-> o, deck |-> [c \in Cards |-> 0]] : o \in Offers(0, {})}

\* Picks that dw_draft_pick does not return 1 for.
PickValid(d, idx, mult) ==
    /\ d.pick_no < Picks
    /\ idx \in 1 .. 2
    /\ mult \in Copies
    /\ d.left[mult] > 0

\* Mutant: the pick does not use up its number of copies.
PickedFreely(d, idx, mult) ==
    LET deck == [d.deck EXCEPT ![d.offer[idx]] = mult]
    IN  {[pick_no |-> d.pick_no + 1, left |-> d.left, offer |-> o, deck |-> deck] :
           o \in Offers(d.pick_no + 1, Taken(deck))}

\* The drafts dw_draft_pick can leave behind; idx is counted from 1.
Picked(d, idx, mult) ==
    LET deck == [d.deck EXCEPT ![d.offer[idx]] = mult]
    IN  {[pick_no |-> d.pick_no + 1, left |-> [d.left EXCEPT ![mult] = @ - 1], offer |-> o, deck |-> deck] :
           o \in Offers(d.pick_no + 1, Taken(deck))}

DraftDone(d) == d.pick_no >= Picks

\* dw_draft_deck_valid: what the server demands of a deck that was not drafted here.
DeckValid(deck) == \A k \in Copies : Cardinality(CardsWith(deck, k)) = Buckets[k]

\* dw_random_deck, dw_deck_parse: the decks a constructed client comes with.
LegalDecks == {deck \in Decks : DeckValid(deck)}

-----------------------------------------------------------------------------
(* What every draft that was begun by NewDrafts and continued by Picked satisfies. *)

OfferOK(d) ==
    IF d.pick_no = Picks THEN d.offer = << >>
    ELSE /\ d.offer \in (Cards \ Taken(d.deck)) \X (Cards \ Taken(d.deck))
         /\ d.offer[1] # d.offer[2]

DraftOK(d) ==
    /\ d.pick_no \in 0 .. Picks
    /\ d.left \in [Copies -> Nat]
    /\ d.deck \in Decks
    /\ d.pick_no + d.left[1] + d.left[2] + d.left[3] = Picks
    /\ Cardinality(Taken(d.deck)) = d.pick_no
    /\ \A k \in Copies : Cardinality(CardsWith(d.deck, k)) + d.left[k] = Buckets[k]
    /\ OfferOK(d)

=============================================================================
