SPECIFICATION Spec
CONSTANTS
    Players = {p1, p2, p3, p4}
    Items = {bag1, bag2, coin, gem}
    Bags = {bag1, bag2}
    NoPlayer = NoPlayer
    NoItem = NoItem
    Ground = Ground
SYMMETRY TradeSymmetry
INVARIANTS PartnersAgree NothingOfferedTwice OfferIsAsShown
 
CHECK_DEADLOCK FALSE
