SPECIFICATION Spec
CONSTANTS
    rich = rich
    poor = poor
    Players = {rich, poor}
    MaxOffers = 2
    Quotes <- Asked
    MaxAmount = 2
    PriceBits = 2
    FeeDivisor = 3
    FeeMin = 1
    FeeMax = 1
    MaxOwnOffers = 1
    InitialBank <- Bank
    InitialCash <- Cash
    InitialWares <- Wares
    InitialCoins <- Coins
    MaxChecks = 2
    MaxFailures = 1
   
PROPERTY OverdueOffersEnd
CHECK_DEADLOCK FALSE
