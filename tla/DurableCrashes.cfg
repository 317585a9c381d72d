SPECIFICATION FairSpec
CONSTANTS
    Id = Id
    Orders <- OneOrder
    Tasks = {p1, p2}
    Trades = {t1}
INVARIANTS TypeOK AtMostOnceSent InFlightIsMarked FinalIsVenueTruth RowBehindLedger
PROPERTY OverIsSeen
CHECK_DEADLOCK FALSE
