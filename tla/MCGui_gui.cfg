SPECIFICATION Spec
CONSTANTS
    Picks = 2
    MaxRuns = 2
    Tickets = 1
    MaxUp = 2
INVARIANT FreshRunDrafts
