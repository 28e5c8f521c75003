---------------------------- MODULE MCMatchRules ----------------------------
(* Instances of RoundShown for TLC: hands of two, and pairs of small decks    *)
(* that between them hold every card of the catalog.                          *)
EXTENDS RoundShown

\* Three neighbours of the catalog and a card from elsewhere in it
CatalogDecks == {Both(<<3 * i, 3 * i + 1>>, <<3 * i + 2, (53 * i + 66) % 105>>) : i \in 0 .. 34}

\* Three cards in two slots: reshuffles, a redraw, a swap, disabled slots
LongDecks == {Both(<<49, 0, 0>>, <<51, 48, 0>>)}

\* A lifeline against a lethal attack, and debts that end in bankruptcy
CloseCalls == {Both(<<10, 59>>, <<10, 11>>), Both(<<45, 45>>, <<46, 46>>)}

MCDecks == CatalogDecks \cup LongDecks \cup CloseCalls
=============================================================================
