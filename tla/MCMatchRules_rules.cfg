SPECIFICATION Spec
CONSTANTS
    DW_HAND = 2
    DW_DECK = 3
    MaxRounds = 2
    Rolls = {20, 60}
    Decks <- MCDecks
INVARIANTS TypeOK CardsKept OutcomeFits Accounted SeatFair ShownAsResolved
PROPERTIES LifelineHolds KeepsDuel
CHECK_DEADLOCK FALSE
