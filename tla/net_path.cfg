CONSTANTS
    FEC_RBD_NUM = 4
    DescsPerLine = 2
    FrameNumbers = 8
    BadFrames = {2, 5}
    MaxSends = 5
    Datagrams <- MCDatagrams
    Cuts <- MCCuts
    IP_MAXUDP = 40
    MaxRepeats = 1
SPECIFICATION PathSpec
INVARIANTS
    WillBeWoken WrittenLineIsOurs LosesOnlyWhenFull
    SentOnce
    ListIsMissing HandedButForFront
PROPERTIES
    ImplementsFifo EventuallyTaken SendReturns
CHECK_DEADLOCK FALSE
