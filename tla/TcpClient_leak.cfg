SPECIFICATION Spec
CONSTANTS
    Builds = {"gui", "console"}
    FdLimit = 9
    Faults <- AnyFault
INVARIANTS
    RandomFdClosed
