SPECIFICATION StringsSpec
CONSTANTS
    Inputs <- ShortInputs
    Texts <- ShortTexts
    Requests <- SomeRequests
    Lengths <- SomeLengths
INVARIANTS
    TypeOK
    RandomTypeOK
    InBounds
    EncodesTheBits
    RoundTrip
    AcceptsBase64Only
    DecodesTheBits
    ChosenCounts
    OwnRandomByte
    EveryOrderOnce
CHECK_DEADLOCK FALSE
