SPECIFICATION FairSpec
CONSTANTS
    Conns = {c1, c2}
    Slots = {m1}
    Kinds = {"human"}
    Modes = {"card", "draft"}
    Tokens = {t1}
    NoToken = NoToken
    Ratings = {1500}
    DefaultRating = 1500
    MaxRounds = 2
    FastForward = FALSE
    Lossy = TRUE
    None = None
 
PROPERTIES MatchesEnd CondemnedClose
