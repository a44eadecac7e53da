SPECIFICATION FairSpec
CONSTANTS
    Requests = {r1}
    Slots = {g1, g2, g3}
    FirstSlot = g1
    NoSlot = NoSlot
    MAX_RETIRING_GENERATIONS = 1
INVARIANTS
    QuietWhenClosed CandidateIsInvisible
PROPERTIES
    ParkedIsWoken ShutdownEnds
