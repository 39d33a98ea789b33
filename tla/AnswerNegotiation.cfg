SPECIFICATION AnswerFairSpec
CONSTANTS
    MaxGen = 3
    MaxOffers = 3
    MaxTrickles = 2
    MaxAnswerFaults = 1
INVARIANTS
    AnswerEchoesOffer
    CandidatesInPlace
PROPERTIES
    RestartOffersTaken
CHECK_DEADLOCK FALSE
