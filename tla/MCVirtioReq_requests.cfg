CONSTANTS
    SectorWrap = 8
    QSize = 2
    MaxChain = 4
    Setups <- MCSetups
SPECIFICATION FairSpec
INVARIANTS WalkCorrect InDevice WritesWritable AnsweredOnce
PROPERTIES Answered
CHECK_DEADLOCK FALSE
