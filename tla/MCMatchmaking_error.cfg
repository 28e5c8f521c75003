SPECIFICATION FairSpec
CONSTANTS
    Conns = {c1, c2}
    Slots = {m1}
    Kinds = {"human"}
    Modes = {"card"}
    Tokens = {}
    NoToken = NoToken
    Ratings = {1500}
    DefaultRating = 1500
    MaxRounds = 1
    FastForward = FALSE
    Lossy = FALSE
    None = None

PROPERTY ErrorIsFinal
