SPECIFICATION FairSpec
CONSTANTS
    Builds = {"gui", "console"}
    FdLimit = 9
    Faults <- AnyFault
INVARIANTS
    TypeOK
    DescriptorsAccounted
    SendsWhatWasChosen
    SuccessMeansServed
    EndsOnlyWhenStarved
PROPERTIES
    ClosesOnlyItsOwn
    ClickReturns
