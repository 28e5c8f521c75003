SPECIFICATION Spec
CONSTANTS
    Conns = {c1, c2, c3, c4}
    Slots = {m1, m2}
    Kinds = {"human", "bot"}
    Modes = {"card", "draft", "constructed"}
    Tokens = {t1}
    NoToken = NoToken
    Ratings = {1400, 1500}
    DefaultRating = 1500
    MaxRounds = 1
    FastForward = FALSE
    Lossy = FALSE
    None = None
SYMMETRY Symmetry
CONSTRAINT Crowd
INVARIANTS TypeOK MatchesAgree PairFindsSlot PartnersBelong QueuesSettled DeckedMatches
PROPERTIES BotsReserved NoOvertaking TickPairsRested
